---- MODULE Spec2Model ----
(***************************************************************************)
(* A model of the Alloy codebase index (CodebaseIndexer), of the code that *)
(* builds and replaces it (initializeIndexer, the settings commands, the   *)
(* analysis flow) and of the queries run against it.                       *)
(*                                                                         *)
(* Text is modelled as a sequence of one-character strings, so that        *)
(* splitting, substring search and path arithmetic are computed as the     *)
(* code computes them.  A file's content is modelled by the matches the    *)
(* indexer's regular expressions find in it (declared names and raw import *)
(* strings, in order) and a revision mark that tells apart two texts with  *)
(* the same matches.                                                       *)
(***************************************************************************)
EXTENDS Integers, Sequences, FiniteSets, TLC

(***************************************************************************)
(* Bounds of the model.                                                    *)
(***************************************************************************)
\* files handed to one Promise.all (the source uses 50; scaled down so that
\* a workspace of three files is processed in more than one batch)
BATCH_SIZE == 2
\* refreshIndex calls that may be in flight together on the live indexer
MaxTasks == 1
\* changes of the filesystem by the environment
MaxEdits == 1
\* settings commands and analysis flows started by the user
MaxOps == 2
\* findRelevantContext calls
MaxQueries == 1
\* findRelevantContext calls in TwiceSpec
MaxRepeats == 2
\* changes of the permissions of files in StaleSpec
MaxFaults == 2
\* analysis flows in StaleSpec
MaxRefreshes == 1
\* refreshIndex calls that may be in flight together in OverlapSpec
MaxOverlap == 2
\* the files one file of the large workspace imports
FanOut == 9
\* the symbols one file of the large workspace declares
ManySymbols == 21

\* 'data' events of the child process of one runProjectCommand call
MaxChunks == 2

\* user messages sent to the chat view
MaxMessages == 2

(***************************************************************************)
(* Program constants.                                                      *)
(***************************************************************************)
\* findRelevantContext: explicitFiles.forEach(f => fileScores.set(f, 100))
EXPLICIT_SCORE == 100
\* findRelevantContext: weight = 10 / (filesWithSymbol.length + 1)
SYMBOL_WEIGHT == 10
\* findRelevantContext: sortedFiles.slice(0, 3)
TOP_MATCHES == 3
\* findRelevantContext: Array.from(expandedFiles).slice(0, 8)
MAX_FILES == 8
\* addSymbol: symbol.length < 3; findRelevantContext: t.length > 2
MIN_TOKEN_LENGTH == 3

\* _handleSendMessage: const MAX_LOOPS = 3
MAX_LOOPS == 3

STOP_WORDS ==
  {
    <<"c","o","n","s","t">>, <<"l","e","t">>, <<"v","a","r">>,
    <<"f","u","n","c","t","i","o","n">>, <<"c","l","a","s","s">>, <<"i","m","p","o","r","t">>,
    <<"f","r","o","m">>, <<"r","e","t","u","r","n">>, <<"a","s","y","n","c">>,
    <<"a","w","a","i","t">>, <<"i","f">>, <<"e","l","s","e">>,
    <<"f","o","r">>, <<"w","h","i","l","e">>, <<"t","r","y">>,
    <<"c","a","t","c","h">>, <<"n","e","w">>, <<"t","h","i","s">>,
    <<"t","r","u","e">>, <<"f","a","l","s","e">>, <<"n","u","l","l">>,
    <<"u","n","d","e","f","i","n","e","d">>, <<"e","x","p","o","r","t">>, <<"d","e","f","a","u","l","t">>,
    <<"i","n","t","e","r","f","a","c","e">>, <<"t","y","p","e">>, <<"m","o","d","u","l","e">>,
    <<"r","e","q","u","i","r","e">>, <<"i","n","c","l","u","d","e">>, <<"p","a","c","k","a","g","e">>,
    <<"n","a","m","e","s","p","a","c","e">>, <<"p","u","b","l","i","c">>, <<"p","r","i","v","a","t","e">>,
    <<"p","r","o","t","e","c","t","e","d">>, <<"v","o","i","d">>, <<"i","n","t">>,
    <<"s","t","r","i","n","g">>, <<"b","o","o","l">>
  }

SUPPORTED_EXTENSIONS ==
  <<
    <<>>, <<".","t","s">>, <<".","j","s">>, <<".","t","s","x">>,
    <<".","j","s","x">>, <<".","m","j","s">>, <<".","c","j","s">>, <<".","p","y">>,
    <<".","p","y","w">>, <<".","j","a","v","a">>, <<".","k","t">>, <<".","s","c","a","l","a">>,
    <<".","g","o">>, <<".","r","s">>, <<".","c">>, <<".","c","p","p">>,
    <<".","h">>, <<".","h","p","p">>, <<".","c","s">>, <<".","p","h","p">>,
    <<".","r","b">>, <<".","s","w","i","f","t">>, <<".","d","a","r","t">>, <<".","l","u","a">>
  >>

indexExtensions ==
  << <<"/","i","n","d","e","x",".","j","s">>,
     <<"/","i","n","d","e","x",".","t","s">>,
     <<"/","_","_","i","n","i","t","_","_",".","p","y">>,
     <<"/","m","a","i","n",".","g","o">>,
     <<"/","m","o","d",".","r","s">> >>

\* the characters of [a-zA-Z0-9_]
IdentChars ==
  {"a", "b", "c", "d", "e", "f", "g", "h", "i", "j", "k", "l", "m", "n", "o", "p", "q", "r", "s", "t", "u", "v", "w", "x", "y", "z",
   "A", "B", "C", "D", "E", "F", "G", "H", "I", "J", "K", "L", "M", "N", "O", "P", "Q", "R", "S", "T", "U", "V", "W", "X", "Y", "Z",
   "0", "1", "2", "3", "4", "5", "6", "7", "8", "9", "_"}

\* the characters of [a-zA-Z0-9_.-], the class whose complement splits a query
TokenChars == IdentChars \cup {".", "-"}

(***************************************************************************)
(* Sequences and text.                                                     *)
(***************************************************************************)
Range(s) == {s[i] : i \in 1..Len(s)}

Contains(s, x) == \E i \in 1..Len(s) : s[i] = x

\* Array.prototype.slice(0, n)
Slice(s, n) == SubSeq(s, 1, IF Len(s) < n THEN Len(s) ELSE n)

\* the elements of s at the indices of keep, in order (Array.prototype.filter)
Pick(s, keep) ==
  LET Nth(n) == CHOOSE i \in keep : Cardinality({j \in keep : j < i}) = n - 1
  IN SubSeq([n \in 1..Cardinality(keep) |-> s[Nth(n)]], 1, Cardinality(keep))

\* the elements of s in order, duplicates after the first dropped
\* (the iteration order of new Set(s))
Dedup(s) == Pick(s, {i \in 1..Len(s) : \A j \in 1..(i - 1) : s[j] # s[i]})

\* the sequences of a sequence, one after the other
RECURSIVE Flatten(_)
Flatten(seqs) ==
  IF Len(seqs) = 0 THEN <<>>
  ELSE IF Len(seqs) = 1 THEN seqs[1]
  ELSE LET half == Len(seqs) \div 2
       IN Flatten(SubSeq(seqs, 1, half)) \o Flatten(SubSeq(seqs, half + 1, Len(seqs)))

\* the sum of a sequence of numbers
RECURSIVE Sum(_)
Sum(nums) ==
  IF Len(nums) = 0 THEN 0
  ELSE IF Len(nums) = 1 THEN nums[1]
  ELSE LET half == Len(nums) \div 2
       IN Sum(SubSeq(nums, 1, half)) + Sum(SubSeq(nums, half + 1, Len(nums)))

\* String.prototype.includes
Includes(text, sub) ==
  \E i \in 0..(Len(text) - Len(sub)) : SubSeq(text, i + 1, i + Len(sub)) = sub

\* the maximal runs of characters of `keep` in text, in order
\* (String.prototype.split on the complement class, empty pieces dropped)
Runs(text, keep) ==
  LET starts   == {i \in 1..Len(text) : text[i] \in keep /\ (i = 1 \/ text[i - 1] \notin keep)}
      EndOf(i) == CHOOSE j \in i..Len(text) :
                    /\ \A k \in i..j : text[k] \in keep
                    /\ j = Len(text) \/ text[j + 1] \notin keep
      Nth(n)   == CHOOSE i \in starts : Cardinality({j \in starts : j < i}) = n - 1
  IN [n \in 1..Cardinality(starts) |-> SubSeq(text, Nth(n), EndOf(Nth(n)))]

\* the pieces of text between the occurrences of the character sep
RECURSIVE SplitOn(_, _, _)
SplitOn(text, sep, cur) ==
  IF text = <<>> THEN <<cur>>
  ELSE IF Head(text) = sep THEN <<cur>> \o SplitOn(Tail(text), sep, <<>>)
  ELSE SplitOn(Tail(text), sep, Append(cur, Head(text)))

\* Array.prototype.join
RECURSIVE JoinWith(_, _)
JoinWith(parts, sep) ==
  IF parts = <<>> THEN <<>>
  ELSE IF Len(parts) = 1 THEN parts[1]
  ELSE parts[1] \o sep \o JoinWith(Tail(parts), sep)

(***************************************************************************)
(* Paths (node's path module, POSIX flavour).                              *)
(***************************************************************************)
\* the index of the last "/" of p, 0 when there is none
LastSlash(p) ==
  LET at == {i \in 1..Len(p) : p[i] = "/"}
  IN IF at = {} THEN 0 ELSE CHOOSE i \in at : \A j \in at : j <= i

\* path.basename
Basename(p) == SubSeq(p, LastSlash(p) + 1, Len(p))

\* path.dirname of an absolute path of a file
Dirname(p) == IF LastSlash(p) <= 1 THEN <<"/">> ELSE SubSeq(p, 1, LastSlash(p) - 1)

\* the segments of a path with "." and "" dropped and ".." resolved
RECURSIVE Normalize(_, _)
Normalize(segs, acc) ==
  IF segs = <<>> THEN acc
  ELSE LET s == Head(segs)
       IN IF s = <<>> \/ s = <<".">> THEN Normalize(Tail(segs), acc)
          ELSE IF s = <<".", ".">>
               THEN Normalize(Tail(segs), IF acc = <<>> THEN acc ELSE SubSeq(acc, 1, Len(acc) - 1))
          ELSE Normalize(Tail(segs), Append(acc, s))

\* path.resolve(dir, rel) for an absolute dir
Resolve(dir, rel) ==
  LET from == IF rel # <<>> /\ Head(rel) = "/" THEN rel ELSE dir \o <<"/">> \o rel
  IN <<"/">> \o JoinWith(Normalize(SplitOn(from, "/", <<>>), <<>>), <<"/">>)

\* path.join(root, rel) for an absolute root
PathJoin(root, rel) == Resolve(root, rel)

\* path.relative(root, p) for a path p under root
Relative(root, p) ==
  IF Len(p) > Len(root) /\ SubSeq(p, 1, Len(root)) = root
  THEN SubSeq(p, Len(root) + 2, Len(p)) ELSE p

(***************************************************************************)
(* Hasher and the indexer's three tables.                                  *)
(*                                                                         *)
(* hashMap is a JavaScript Map whose iteration order the code uses: it is  *)
(* a sequence of [path, hash] entries in insertion order.  symbolMap and   *)
(* dependencyMap are read by key only: they are functions.                 *)
(***************************************************************************)
\* crypto sha256: two digests are equal exactly when the hashed texts are
computeHash(text) == [alg |-> "sha256", of |-> text]

\* what Map.get returns for a key that is not there
Undefined == [alg |-> "undefined", of |-> <<>>]

\* hash: '' of the node buildTree returns for an inaccessible root
EmptyHash == [alg |-> "none", of |-> <<>>]

EmptyMap == [k \in {} |-> <<>>]

HashKeys(hm) == [i \in 1..Len(hm) |-> hm[i].path]

HashHas(hm, p) == \E i \in 1..Len(hm) : hm[i].path = p

HashGet(hm, p) ==
  IF HashHas(hm, p) THEN hm[CHOOSE i \in 1..Len(hm) : hm[i].path = p].hash ELSE Undefined

\* Map.set: a present key keeps its place, a new key goes last
HashSet(hm, p, h) ==
  IF HashHas(hm, p)
  THEN [i \in 1..Len(hm) |-> IF hm[i].path = p THEN [path |-> p, hash |-> h] ELSE hm[i]]
  ELSE Append(hm, [path |-> p, hash |-> h])

MapGet(m, k) == IF k \in DOMAIN m THEN m[k] ELSE <<>>

MapSet(m, k, v) == [x \in DOMAIN m \cup {k} |-> IF x = k THEN v ELSE m[x]]

addSymbol(sm, symbol, filePath) ==
  IF Len(symbol) < MIN_TOKEN_LENGTH \/ symbol \in STOP_WORDS THEN sm
  ELSE LET existing == MapGet(sm, symbol)
       IN MapSet(sm, symbol,
                 IF Contains(existing, filePath) THEN existing ELSE Append(existing, filePath))

\* FirstIndexed without the test this.hashMap.has: the first candidate is taken
FirstCandidate(hm, candidates) == candidates[1]

\* FirstIndexed with the candidates tried from the last to the first
LastIndexed(hm, candidates) ==
  LET hits == {i \in 1..Len(candidates) : HashHas(hm, candidates[i])}
  IN IF hits = {} THEN <<>>
     ELSE candidates[CHOOSE i \in hits : \A j \in hits : i >= j]

\* the first of the candidate paths that is a key of hashMap, <<>> (null) if none
FirstIndexed(hm, candidates) ==
  LET hits == {i \in 1..Len(candidates) : HashHas(hm, candidates[i])}
  IN IF hits = {} THEN <<>>
     ELSE candidates[CHOOSE i \in hits : \A j \in hits : i <= j]

resolveImportPath(hm, currentFile, importPath) ==
  LET baseResolved == Resolve(Dirname(currentFile), importPath)
  IN FirstIndexed(hm,
       <<baseResolved>>
       \o [i \in 1..Len(SUPPORTED_EXTENSIONS) |-> baseResolved \o SUPPORTED_EXTENSIONS[i]]
       \o [i \in 1..Len(indexExtensions) |-> baseResolved \o indexExtensions[i]])

\* match[1].replace(/\./g, '/')
DotsToSlashes(raw) == [i \in 1..Len(raw) |-> IF raw[i] = "." THEN "/" ELSE raw[i]]

\* ResolveAll with a resolver that answers a path once: a second import that
\* resolves to it is dropped
ResolveAllOnce(hm, filePath, raws) ==
  LET resolved == [i \in 1..Len(raws) |-> resolveImportPath(hm, filePath, raws[i])]
  IN Dedup(Pick(resolved, {i \in 1..Len(raws) : resolved[i] # <<>>}))

\* the resolved imports of a list of raw imports, the unresolved ones dropped
ResolveAll(hm, filePath, raws) ==
  LET resolved == [i \in 1..Len(raws) |-> resolveImportPath(hm, filePath, raws[i])]
  IN Pick(resolved, {i \in 1..Len(raws) : resolved[i] # <<>>})

\* AddSymbols on a table from which the file is first taken out of every list
AddSymbolsRetracting(sm, names, filePath) ==
  LET cleared == [k \in DOMAIN sm |-> Pick(sm[k], {i \in 1..Len(sm[k]) : sm[k][i] # filePath})]
      added   == {name \in Range(names) : name \in DOMAIN addSymbol(cleared, name, filePath)}
  IN [symbol \in DOMAIN sm \cup added |->
        IF symbol \in added THEN addSymbol(cleared, symbol, filePath)[symbol]
        ELSE cleared[symbol]]

\* while (match = REGEX_DEF.exec(content)) this.addSymbol(match[1], filePath):
\* each name that addSymbol accepts gets the file in its list, once
AddSymbols(sm, names, filePath) ==
  LET added == {name \in Range(names) : name \in DOMAIN addSymbol(sm, name, filePath)}
  IN [symbol \in DOMAIN sm \cup added |->
        IF symbol \in added THEN addSymbol(sm, symbol, filePath)[symbol] ELSE sm[symbol]]

\* the raw import strings the three loops of indexContent pass to
\* resolveImportPath, in order
RawImports(content) ==
  content.quoted \o content.angle
  \o [i \in 1..Len(content.python) |-> DotsToSlashes(content.python[i])]

\* indexContent that sets no dependency entry for a file none of whose imports
\* resolves
indexContentSparse(ix, filePath, content) ==
  LET dependencies == ResolveAll(ix.hashMap, filePath, RawImports(content))
  IN [ix EXCEPT !.symbolMap = AddSymbols(ix.symbolMap, content.defs, filePath),
                !.dependencyMap = IF dependencies = <<>> THEN @
                                  ELSE MapSet(ix.dependencyMap, filePath, dependencies)]

\* indexContent(filePath, content) on tables [hashMap, symbolMap, dependencyMap]
indexContent(ix, filePath, content) ==
  LET dependencies == ResolveAll(ix.hashMap, filePath, RawImports(content))
  IN [ix EXCEPT !.symbolMap = AddSymbols(ix.symbolMap, content.defs, filePath),
                !.dependencyMap = MapSet(ix.dependencyMap, filePath, dependencies)]

\* Changed without the comparison: the recorded digest is not consulted
ChangedAlways(ix, fullPath, content) == TRUE

\* processFile: this.hashMap.get(fullPath) !== hash
Changed(ix, fullPath, content) == HashGet(ix.hashMap, fullPath) # computeHash(<<content>>)

\* IndexFile without this.hashMap.set: the content is indexed, its digest is not
\* recorded
IndexFileUnrecorded(ix, fullPath, content) ==
  IF Changed(ix, fullPath, content) THEN indexContent(ix, fullPath, content) ELSE ix

\* the part of processFile after its reads: a changed file's digest is recorded
\* and its content indexed
IndexFile(ix, fullPath, content) ==
  IF Changed(ix, fullPath, content)
  THEN indexContent([ix EXCEPT !.hashMap = HashSet(ix.hashMap, fullPath,
                                                   computeHash(<<content>>))],
                    fullPath, content)
  ELSE ix

FileNode(fullPath, content) ==
  [hash |-> computeHash(<<content>>), path |-> fullPath, type |-> "file", present |-> TRUE]

\* the null processFile returns for a file it skips
NullNode == [hash |-> Undefined, path |-> <<>>, type |-> "file", present |-> FALSE]

(***************************************************************************)
(* Relevance engine: the synchronous part of findRelevantContext.          *)
(*                                                                         *)
(* Scores are the code's numbers times ScoreDen, the least common multiple *)
(* of the divisors (filesWithSymbol.length + 1) the symbol table can give, *)
(* so that every weight 10 / (n + 1) is a whole number and sums and        *)
(* comparisons are exact.                                                  *)
(***************************************************************************)
RECURSIVE Gcd(_, _)
Gcd(a, b) == IF b = 0 THEN a ELSE Gcd(b, a % b)

Lcm(a, b) == (a * b) \div Gcd(a, b)

RECURSIVE LcmOf(_)
LcmOf(S) ==
  IF S = {} THEN 1
  ELSE LET x == CHOOSE y \in S : TRUE IN Lcm(x, LcmOf(S \ {x}))

ScoreDen(sm) == LcmOf({Len(sm[k]) + 1 : k \in DOMAIN sm})

\* query.split(/[^a-zA-Z0-9_.-]+/).filter(t => t.length > 2 && !STOP_WORDS.has(t))
KeepTokens(ts) ==
  Pick(ts, {i \in 1..Len(ts) : Len(ts[i]) > MIN_TOKEN_LENGTH - 1 /\ ts[i] \notin STOP_WORDS})

queryTokens(query) == KeepTokens(Runs(query, TokenChars))

uniqueTokens(query) == Dedup(queryTokens(query))

\* allIndexedFiles.filter(f => query.includes(basename(f)) || query.includes(f))
explicitFiles(keys, query) ==
  Pick(keys, {i \in 1..Len(keys) :
                Includes(query, Basename(keys[i])) \/ Includes(query, keys[i])})

\* Weight without the + 1 of the divisor
WeightByCount(sm, token, den) == (SYMBOL_WEIGHT * den) \div Len(MapGet(sm, token))

\* const weight = 10 / (filesWithSymbol.length + 1), times den
Weight(sm, token, den) == (SYMBOL_WEIGHT * den) \div (Len(MapGet(sm, token)) + 1)

\* fileScores is a Map in insertion order: a sequence of [file, score].  The
\* explicit files are set to EXPLICIT_SCORE first; then, token by token, every
\* file of the token's list gets the token's weight added to what it has (0 when
\* it has no entry yet, and then its entry goes last)
fileScores(ix, query) ==
  LET sm       == ix.symbolMap
      den      == ScoreDen(sm)
      explicit == explicitFiles(HashKeys(ix.hashMap), query)
      unique   == uniqueTokens(query)
      tokens   == Pick(unique, {i \in 1..Len(unique) : unique[i] \in DOMAIN sm})
      files    == Dedup(explicit \o Flatten([i \in 1..Len(tokens) |-> sm[tokens[i]]]))
      Score(f) == (IF Contains(explicit, f) THEN EXPLICIT_SCORE * den ELSE 0)
                  + Sum([i \in 1..Len(tokens) |->
                           IF Contains(sm[tokens[i]], f) THEN Weight(sm, tokens[i], den)
                           ELSE 0])
  IN [i \in 1..Len(files) |-> [file |-> files[i], score |-> Score(files[i])]]

\* Array.prototype.sort((a, b) => b[1] - a[1]): stable, descending by score
RECURSIVE InsertDesc(_, _)
InsertDesc(sorted, e) ==
  IF sorted = <<>> THEN <<e>>
  ELSE IF Head(sorted).score >= e.score THEN <<Head(sorted)>> \o InsertDesc(Tail(sorted), e)
  ELSE <<e>> \o sorted

RECURSIVE SortDesc(_)
SortDesc(entries) ==
  IF entries = <<>> THEN <<>>
  ELSE InsertDesc(SortDesc(SubSeq(entries, 1, Len(entries) - 1)), entries[Len(entries)])

\* sortedFiles with the comparison b[1] - a[1] turned round: lowest score first
sortedFilesAscending(ix, query) ==
  LET sorted == SortDesc(fileScores(ix, query))
  IN [i \in 1..Len(sorted) |-> sorted[Len(sorted) + 1 - i].file]

sortedFiles(ix, query) ==
  LET sorted == SortDesc(fileScores(ix, query))
  IN [i \in 1..Len(sorted) |-> sorted[i].file]

topMatches(ix, query) == Slice(sortedFiles(ix, query), TOP_MATCHES)

\* the imports of the files of a list, in order
ImportsOf(dm, files) == Flatten([i \in 1..Len(files) |-> MapGet(dm, files[i])])

\* expandedFiles with a second round: the imports of the imports are added too
expandedFilesTwoHops(ix, query) ==
  LET top == topMatches(ix, query)
      one == ImportsOf(ix.dependencyMap, top)
  IN Dedup(top \o one \o ImportsOf(ix.dependencyMap, one))

\* new Set(topMatches), then every import of every top match added
expandedFiles(ix, query) ==
  LET top == topMatches(ix, query)
  IN Dedup(top \o ImportsOf(ix.dependencyMap, top))

\* filesToRead without the slice: the expanded set is read whole
filesToReadAll(ix, query) == expandedFiles(ix, query)

\* Array.from(expandedFiles).slice(0, 8)
filesToRead(ix, query) == Slice(expandedFiles(ix, query), MAX_FILES)

(***************************************************************************)
(* Ignore filter.  A glob pattern is modelled by its shape: a directory    *)
(* anywhere in the path, a file extension, a file name, or a pattern glob  *)
(* rejects (minimatch throws on a pattern it cannot compile, such as one   *)
(* over its length limit).                                                 *)
(***************************************************************************)
\* **/dir/**
DirPattern(dir) == [shape |-> "dir", arg |-> dir]

\* **/*ext
ExtPattern(ext) == [shape |-> "ext", arg |-> ext]

\* **/name
NamePattern(name) == [shape |-> "name", arg |-> name]

InvalidPattern == [shape |-> "invalid", arg |-> <<>>]

DEFAULT_IGNORES ==
  <<
    DirPattern(<<"n","o","d","e","_","m","o","d","u","l","e","s">>),
    DirPattern(<<"b","o","w","e","r","_","c","o","m","p","o","n","e","n","t","s">>),
    DirPattern(<<"d","i","s","t">>),
    DirPattern(<<"o","u","t">>),
    DirPattern(<<"b","u","i","l","d">>),
    DirPattern(<<".","v","e","n","v">>),
    DirPattern(<<"v","e","n","v">>),
    DirPattern(<<"e","n","v">>),
    DirPattern(<<"_","_","p","y","c","a","c","h","e","_","_">>),
    ExtPattern(<<".","p","y","c">>),
    ExtPattern(<<".","p","y","o">>),
    DirPattern(<<"t","a","r","g","e","t">>),
    DirPattern(<<"b","i","n">>),
    DirPattern(<<"o","b","j">>),
    DirPattern(<<"v","e","n","d","o","r">>),
    DirPattern(<<".","g","i","t">>),
    DirPattern(<<".","s","v","n">>),
    DirPattern(<<".","i","d","e","a">>),
    DirPattern(<<".","v","s","c","o","d","e">>),
    NamePattern(<<".","D","S","_","S","t","o","r","e">>),
    ExtPattern(<<".","m","i","n",".","j","s">>),
    ExtPattern(<<".","m","a","p">>),
    ExtPattern(<<".","s","v","g">>),
    ExtPattern(<<".","p","n","g">>),
    ExtPattern(<<".","j","p","g">>),
    ExtPattern(<<".","j","s","o","n">>),
    ExtPattern(<<".","l","o","c","k">>),
    ExtPattern(<<".","l","o","g">>)
  >>

EndsWith(text, suffix) ==
  Len(text) >= Len(suffix) /\ SubSeq(text, Len(text) - Len(suffix) + 1, Len(text)) = suffix

\* does the glob pattern cover the relative path
GlobMatch(pattern, rel) ==
  LET segs == SplitOn(rel, "/", <<>>)
  IN CASE pattern.shape = "dir"  -> \E i \in 1..(Len(segs) - 1) : segs[i] = pattern.arg
       [] pattern.shape = "ext"  -> EndsWith(segs[Len(segs)], pattern.arg)
       [] pattern.shape = "name" -> segs[Len(segs)] = pattern.arg
       [] OTHER -> FALSE

\* const finalIgnores = [...DEFAULT_IGNORES, ...this.customIgnores]
finalIgnores(custom) == DEFAULT_IGNORES \o custom

Ignored(ignores, rel) == \E i \in 1..Len(ignores) : GlobMatch(ignores[i], rel)

GlobRejects(ignores) == \E i \in 1..Len(ignores) : ignores[i].shape = "invalid"

(***************************************************************************)
(* The workspace the model runs on.                                        *)
(***************************************************************************)
WORKSPACE == <<"/","w">>

F_A == <<"a",".","t","s">>
F_B == <<"b",".","t","s">>
F_K == <<"s","/","k",".","t","s">>

\* the files of the small workspace, in ascending enumeration order
SysFiles == <<F_A, F_B, F_K>>

NoText == [defs |-> <<>>, quoted |-> <<>>, angle |-> <<>>, python |-> <<>>, rev |-> 0]

\* function foo ... import x from './b'
TextFoo ==
  [defs |-> << <<"f","o","o">> >>, quoted |-> << <<".","/","b">> >>,
   angle |-> <<>>, python |-> <<>>, rev |-> 1]

\* class bar ... require('./s/k')
TextBar ==
  [defs |-> << <<"b","a","r">> >>, quoted |-> << <<".","/","s","/","k">> >>,
   angle |-> <<>>, python |-> <<>>, rev |-> 2]

\* function key
TextKey ==
  [defs |-> << <<"k","e","y">> >>, quoted |-> <<>>,
   angle |-> <<>>, python |-> <<>>, rev |-> 3]

SysTexts == {TextFoo, TextBar, TextKey}

Absent == [kind |-> "absent", text |-> NoText]

File(text) == [kind |-> "ok", text |-> text]

SysFs == (F_A :> File(TextFoo)) @@ (F_B :> File(TextBar)) @@ (F_K :> File(TextKey))

\* **/s/**, the pattern a user adds to hide the directory s
PAT_SECRETS == DirPattern(<<"s">>)

UserPatterns == {PAT_SECRETS, InvalidPattern}

\* "foo failed in a.ts"
Q_FooInA == <<"f","o","o"," ","f","a","i","l","e","d"," ","i","n"," ","a",".","t","s">>
\* "bar key in k.ts"
Q_Key == <<"b","a","r"," ","k","e","y"," ","i","n"," ","k",".","t","s">>
\* "nothing"
Q_Nothing == <<"n","o","t","h","i","n","g">>

SysQueries == {Q_FooInA, Q_Key, Q_Nothing}

\* "foo bar": two symbols, each declared by one file
Q_FooBar == <<"f","o","o"," ","b","a","r">>

(***************************************************************************)
(* The large workspace: w.ts declares ManySymbols symbols and imports      *)
(* FanOut files, e.ts is a file a stack trace names.                       *)
(***************************************************************************)
Digits == <<"0","1","2","3","4","5","6","7","8","9">>

\* the two digits of a number under 100
Numeral(n) == <<Digits[(n \div 10) + 1], Digits[(n % 10) + 1]>>

F_E == <<"e",".","t","s">>
F_W == <<"w",".","t","s">>
\* f01.ts, f02.ts, ...
F_Dep(n) == <<"f">> \o Numeral(n) \o <<".","t","s">>

\* f01.ts ... f<n>.ts
RECURSIVE DepFiles(_)
DepFiles(n) == IF n = 0 THEN <<>> ELSE Append(DepFiles(n - 1), F_Dep(n))

\* the files of the large workspace, in ascending enumeration order
BigFiles == <<F_E>> \o DepFiles(FanOut) \o <<F_W>>

\* s01, s02, ...
Symbol(n) == <<"s">> \o Numeral(n)

RECURSIVE Symbols(_)
Symbols(n) == IF n = 0 THEN <<>> ELSE Append(Symbols(n - 1), Symbol(n))

\* './f01' ... './f<n>'
RECURSIVE DepImports(_)
DepImports(n) ==
  IF n = 0 THEN <<>> ELSE Append(DepImports(n - 1), <<".","/","f">> \o Numeral(n))

\* function s01 ... function s21 ... import x from './f01' ... './f09'
TextWide ==
  [defs |-> Symbols(ManySymbols), quoted |-> DepImports(FanOut),
   angle |-> <<>>, python |-> <<>>, rev |-> 4]

\* a file without definitions or imports
TextPlain(n) == [NoText EXCEPT !.rev = 10 + n]

\* the files f01.ts ... f<n>.ts on disk, beside e.ts and w.ts
RECURSIVE BigFsOf(_)
BigFsOf(n) ==
  IF n = 0 THEN (F_E :> File(TextPlain(0))) @@ (F_W :> File(TextWide))
  ELSE (F_Dep(n) :> File(TextPlain(n))) @@ BigFsOf(n - 1)

BigFs == BigFsOf(FanOut)

\* "w.ts"
Q_Wide == F_W
\* "e.ts s01 s02 ... s21": a stack trace that names e.ts and the symbols of w.ts
Q_Trace == JoinWith(<<F_E>> \o Symbols(ManySymbols), <<" ">>)

BigQueries == {Q_Wide, Q_Trace}

(***************************************************************************)
(* The workspace of two files: main.x imports utils.x and calls            *)
(* parseConfig, utils.x declares parseConfig.                              *)
(***************************************************************************)
F_Main == <<"m","a","i","n",".","x">>
F_Utils == <<"u","t","i","l","s",".","x">>

PairFiles == <<F_Main, F_Utils>>

S_ParseConfig == <<"p","a","r","s","e","C","o","n","f","i","g">>

\* import { parseConfig } from './utils.x' ... parseConfig(argv): a call is no
\* definition, REGEX_DEF finds none
TextMain ==
  [defs |-> <<>>, quoted |-> << <<".","/","u","t","i","l","s",".","x">> >>,
   angle |-> <<>>, python |-> <<>>, rev |-> 5]

\* function parseConfig
TextUtils ==
  [defs |-> <<S_ParseConfig>>, quoted |-> <<>>, angle |-> <<>>, python |-> <<>>, rev |-> 6]

PairFs == (F_Main :> File(TextMain)) @@ (F_Utils :> File(TextUtils))

\* "parseConfig threw an error in main.x"
Q_ParseConfig ==
  S_ParseConfig \o <<" ","t","h","r","e","w"," ","a","n"," ","e","r","r","o","r"," ",
                     "i","n"," ">> \o F_Main

\* "utils.parseConfig failed"
Q_Dotted ==
  <<"u","t","i","l","s",".">> \o S_ParseConfig \o <<" ","f","a","i","l","e","d">>

PairQueries == {Q_ParseConfig, Q_Dotted, Q_Nothing}

(***************************************************************************)
(* The workspace of the resolver: m.ts imports './u' twice; beside it are  *)
(* u.js (which imports './u.ts'), u.ts and u/index.ts.                     *)
(***************************************************************************)
F_M == <<"m",".","t","s">>
F_UJs == <<"u",".","j","s">>
F_UTs == <<"u",".","t","s">>
F_UIndex == <<"u","/","i","n","d","e","x",".","t","s">>

ResolverFiles == <<F_M, F_UJs, F_UTs, F_UIndex>>

\* import u from './u' ... import { v } from './u'
TextM ==
  [defs |-> <<>>, quoted |-> << <<".","/","u">>, <<".","/","u">> >>,
   angle |-> <<>>, python |-> <<>>, rev |-> 7]

\* import t from './u.ts'
TextUJs ==
  [defs |-> <<>>, quoted |-> << <<".","/","u",".","t","s">> >>,
   angle |-> <<>>, python |-> <<>>, rev |-> 8]

ResolverFs ==
  (F_M :> File(TextM)) @@ (F_UJs :> File(TextUJs)) @@ (F_UTs :> File(TextPlain(22)))
  @@ (F_UIndex :> File(TextPlain(23)))

\* every file a workspace of the model may hold, in ascending enumeration order
AllFiles == SysFiles \o BigFiles \o PairFiles \o ResolverFiles

\* the orders in which glob may enumerate the same files
EnumOrders == {"asc", "desc"}

(***************************************************************************)
(* State.                                                                  *)
(***************************************************************************)
VARIABLES
  fs,             \* the files under the workspace root: relative path -> [kind, text]
  rootOk,         \* the workspace root exists and is readable
  custom_ignores, \* workspaceState 'custom_ignores'
  indexerLive,    \* GlobalState.indexer is not null
  customIgnores,  \* GlobalState.indexer.customIgnores
  root,           \* GlobalState.indexer.root
  hashMap,        \* GlobalState.indexer.hashMap
  symbolMap,      \* GlobalState.indexer.symbolMap
  dependencyMap,  \* GlobalState.indexer.dependencyMap
  indexFresh,     \* Date.now() - GlobalState.lastIndexTime <= 5 minutes
  tasks,          \* the refreshIndex calls in flight on GlobalState.indexer, each with
                  \* the history of what it did
  orphans,        \* refreshIndex calls in flight on replaced indexers whose caller sets lastIndexTime
  initPending,    \* settings handlers between workspaceState.update and initializeIndexer(true)
  query,          \* the findRelevantContext call in flight
  lastRefresh,    \* history: the refreshIndex call that settled last
  lastResult,     \* history: what the last findRelevantContext call returned, and the
                  \* paths the digest table held when it was called
  since,          \* history: the filesystem changes since the last rebuild that completed
                  \* (valid: that rebuild ran over a filesystem that did not change)
  budget,         \* what the environment and the user may still do
  runner,         \* the runProjectCommand call: its closure, its child process, its promise
  chat            \* the _handleSendMessage call and the messages posted to the webview

vars ==
  <<fs, rootOk, custom_ignores, indexerLive, customIgnores, root, hashMap, symbolMap,
    dependencyMap, indexFresh, tasks, orphans, initPending, query, lastRefresh,
    lastResult, since, budget, runner, chat>>

envVars == <<fs, rootOk>>
indexVars == <<root, hashMap, symbolMap, dependencyMap>>

Ix == [hashMap |-> hashMap, symbolMap |-> symbolMap, dependencyMap |-> dependencyMap]

EmptyIx == [hashMap |-> <<>>, symbolMap |-> EmptyMap, dependencyMap |-> EmptyMap]

\* private root: MerkleNode | null = null
NoRoot == [hash |-> Undefined, path |-> <<>>, type |-> "null", children |-> <<>>]

IdleTask ==
  [pc |-> "idle", then |-> "none", files |-> <<>>, i |-> 0, phase |-> <<>>,
   results |-> <<>>, fileNodes |-> <<>>,
   before |-> EmptyIx, base |-> [valid |-> FALSE, edits |-> <<>>], edits |-> <<>>,
   overlap |-> FALSE, indexed |-> <<>>, read |-> {}, hasSeen |-> FALSE, seen |-> EmptyIx,
   resolved |-> {}, failed |-> {}]

\* no refreshIndex call has settled before
NoPrior ==
  [done |-> FALSE, error |-> FALSE, then |-> "none", files |-> <<>>, overlap |-> FALSE,
   indexed |-> <<>>, edits |-> <<>>, follows |-> FALSE]

NoRefresh ==
  [done |-> FALSE, error |-> FALSE, settled |-> "none", then |-> "none", files |-> <<>>,
   prior |-> NoPrior,
   snap |-> <<>>, before |-> EmptyIx, after |-> EmptyIx, rootBefore |-> NoRoot,
   base |-> [valid |-> FALSE, edits |-> <<>>], edits |-> <<>>, overlap |-> FALSE,
   indexed |-> <<>>, read |-> {}, hasSeen |-> FALSE, seen |-> EmptyIx, replaced |-> {},
   resolved |-> {}, failed |-> {}]

IdleQuery ==
  [pc |-> "idle", text |-> <<>>, files |-> <<>>, parts |-> <<>>, ranked |-> <<>>,
   known |-> {}, omitted |-> {}]

\* no call of findRelevantContext has returned before
NoEarlier ==
  [kind |-> "none", text |-> <<>>, files |-> <<>>, entries |-> <<>>, rebuilt |-> FALSE]

NoResult ==
  [kind |-> "none", text |-> <<>>, files |-> <<>>, ranked |-> <<>>, entries |-> <<>>,
   ignores |-> <<>>, rebuilt |-> FALSE, known |-> {}, omitted |-> {}, earlier |-> NoEarlier]

Live(t) == tasks[t].pc # "idle"

\* what fs.stat and fs.readFile find at a path of the workspace: nothing once the
\* workspace root is gone
KindOf(f) == IF rootOk THEN fs[f].kind ELSE "absent"

(***************************************************************************)
(* The environment: the user's files change under the running extension.   *)
(***************************************************************************)
\* every rebuild in flight, and the record of the changes since the last
\* completed one, learn of a change of the filesystem
NoteEdit(e) ==
  /\ tasks' = [t \in DOMAIN tasks |->
                 IF Live(t) THEN [tasks[t] EXCEPT !.edits = Append(@, e)] ELSE tasks[t]]
  /\ since' = IF since.valid THEN [since EXCEPT !.edits = Append(@, e)] ELSE since
  /\ budget' = [budget EXCEPT !.edits = @ - 1]

EditFrame ==
  UNCHANGED <<runner, chat, custom_ignores, indexerLive, customIgnores, indexVars, indexFresh, orphans,
              initPending, query, lastRefresh, lastResult>>

Modify(f, text) ==
  /\ budget.edits > 0
  /\ fs[f].kind = "ok" /\ fs[f].text # text
  /\ fs' = [fs EXCEPT ![f] = File(text)]
  /\ NoteEdit([file |-> f, kind |-> "modify"])
  /\ UNCHANGED rootOk /\ EditFrame

Delete(f) ==
  /\ budget.edits > 0
  /\ fs[f].kind # "absent"
  /\ fs' = [fs EXCEPT ![f] = Absent]
  /\ NoteEdit([file |-> f, kind |-> "delete"])
  /\ UNCHANGED rootOk /\ EditFrame

\* the file's permissions are taken away: stat succeeds, readFile fails
Protect(f) ==
  /\ budget.edits > 0
  /\ fs[f].kind = "ok"
  /\ fs' = [fs EXCEPT ![f].kind = "unreadable"]
  /\ NoteEdit([file |-> f, kind |-> "protect"])
  /\ UNCHANGED rootOk /\ EditFrame

\* the file's permissions are given back
Restore(f) ==
  /\ budget.edits > 0
  /\ fs[f].kind = "unreadable"
  /\ fs' = [fs EXCEPT ![f].kind = "ok"]
  /\ NoteEdit([file |-> f, kind |-> "restore"])
  /\ UNCHANGED rootOk /\ EditFrame

\* the file grows over 500 KiB
Grow(f) ==
  /\ budget.edits > 0
  /\ fs[f].kind = "ok"
  /\ fs' = [fs EXCEPT ![f].kind = "large"]
  /\ NoteEdit([file |-> f, kind |-> "grow"])
  /\ UNCHANGED rootOk /\ EditFrame

\* the workspace root is removed or made unreadable
LoseRoot ==
  /\ budget.edits > 0
  /\ rootOk
  /\ rootOk' = FALSE
  /\ NoteEdit([file |-> <<>>, kind |-> "root"])
  /\ UNCHANGED fs /\ EditFrame

\* more than five minutes pass since lastIndexTime
Tick ==
  /\ indexFresh
  /\ indexFresh' = FALSE
  /\ UNCHANGED <<envVars, runner, chat, custom_ignores, indexerLive, customIgnores, indexVars, tasks,
                 orphans, initPending, query, lastRefresh, lastResult, since, budget>>

(***************************************************************************)
(* initializeIndexer and the commands that call it.                        *)
(***************************************************************************)
\* the state of a refreshIndex call up to its first await (glob)
NewTask(then, ix, base, overlapping) ==
  [IdleTask EXCEPT !.pc = "glob", !.then = then, !.before = ix, !.base = base,
                   !.overlap = overlapping, !.seen = ix]

\* initializeIndexer without the new object: the tables of the indexer are kept
initializeIndexerKeeping(force) ==
  /\ indexerLive' = TRUE
  /\ customIgnores' = custom_ignores
  /\ tasks' = [t \in DOMAIN tasks |->
                 IF t = 1
                 THEN NewTask(IF force THEN "forced" ELSE "activation", Ix,
                              [valid |-> FALSE, edits |-> <<>>], FALSE)
                 ELSE IdleTask]
  /\ orphans' = orphans + Cardinality({t \in DOMAIN tasks : Live(t) /\ tasks[t].then # "forced"})
  /\ since' = [valid |-> FALSE, edits |-> <<>>]
  /\ lastRefresh' = [NoRefresh EXCEPT !.replaced = lastRefresh.replaced \cup Range(HashKeys(hashMap))]
  /\ UNCHANGED <<envVars, runner, chat, custom_ignores, indexVars, indexFresh, query, lastResult>>

\* initializeIndexer(force): a new CodebaseIndexer replaces GlobalState.indexer and
\* its refreshIndex is started; the calls in flight on the replaced indexer go on
\* on an object nothing refers to any more
initializeIndexer(force) ==
  /\ indexerLive' = TRUE
  /\ customIgnores' = custom_ignores
  /\ root' = NoRoot
  /\ hashMap' = <<>>
  /\ symbolMap' = EmptyMap
  /\ dependencyMap' = EmptyMap
  /\ tasks' = [t \in DOMAIN tasks |->
                 IF t = 1
                 THEN NewTask(IF force THEN "forced" ELSE "activation", EmptyIx,
                              [valid |-> FALSE, edits |-> <<>>], FALSE)
                 ELSE IdleTask]
  /\ orphans' = orphans + Cardinality({t \in DOMAIN tasks : Live(t) /\ tasks[t].then # "forced"})
  /\ since' = [valid |-> FALSE, edits |-> <<>>]
  /\ lastRefresh' = [NoRefresh EXCEPT !.replaced = lastRefresh.replaced \cup Range(HashKeys(hashMap))]
  /\ UNCHANGED <<envVars, runner, chat, custom_ignores, indexFresh, query, lastResult>>

\* activate(): initializeIndexer() is called and not awaited
Activate ==
  /\ ~indexerLive
  /\ initializeIndexer(FALSE)
  /\ UNCHANGED <<initPending, budget>>

\* manageIgnoreList, accepting "Add Pattern": the new list is persisted
AddIgnore(pattern) ==
  /\ budget.ops > 0
  /\ indexerLive
  /\ ~Contains(custom_ignores, pattern)
  /\ custom_ignores' = Append(custom_ignores, pattern)
  /\ initPending' = initPending + 1
  /\ budget' = [budget EXCEPT !.ops = @ - 1]
  /\ UNCHANGED <<envVars, runner, chat, indexerLive, customIgnores, indexVars, indexFresh, tasks, orphans,
                 query, lastRefresh, lastResult, since>>

\* currentIgnores.filter(p => p !== selection.value)
Without(list, x) == Pick(list, {i \in 1..Len(list) : list[i] # x})

\* manageIgnoreList, accepting a current rule: the list without it is persisted
RemoveIgnore(pattern) ==
  /\ budget.ops > 0
  /\ indexerLive
  /\ Contains(custom_ignores, pattern)
  /\ custom_ignores' = Without(custom_ignores, pattern)
  /\ initPending' = initPending + 1
  /\ budget' = [budget EXCEPT !.ops = @ - 1]
  /\ UNCHANGED <<envVars, runner, chat, indexerLive, customIgnores, indexVars, indexFresh, tasks, orphans,
                 query, lastRefresh, lastResult, since>>

\* manageIgnoreList after its await of workspaceState.update: initializeIndexer(true)
ForcedInit ==
  /\ initPending > 0
  /\ initPending' = initPending - 1
  /\ initializeIndexer(TRUE)
  /\ UNCHANGED budget

\* handleResetSettings, choice 'index': initializeIndexer(true)
RebuildIndex ==
  /\ budget.ops > 0
  /\ indexerLive
  /\ budget' = [budget EXCEPT !.ops = @ - 1]
  /\ initializeIndexer(TRUE)
  /\ UNCHANGED initPending

\* handleResetSettings, choice 'all': custom_ignores is set to undefined
FactoryReset ==
  /\ budget.ops > 0
  /\ indexerLive
  /\ custom_ignores' = <<>>
  /\ budget' = [budget EXCEPT !.ops = @ - 1]
  /\ UNCHANGED <<envVars, runner, chat, indexerLive, customIgnores, indexVars, indexFresh, tasks, orphans,
                 initPending, query, lastRefresh, lastResult, since>>

\* runAnalysisFlow: the index is older than five minutes and is refreshed
AnalysisRefresh(t) ==
  /\ budget.ops > 0
  /\ indexerLive /\ ~indexFresh
  /\ ~Live(t) /\ \A u \in DOMAIN tasks : u < t => Live(u)
  /\ tasks' = [u \in DOMAIN tasks |->
                 IF u = t THEN NewTask("analysis", Ix, since, \E v \in DOMAIN tasks : Live(v))
                 ELSE IF Live(u) THEN [tasks[u] EXCEPT !.overlap = TRUE]
                 ELSE tasks[u]]
  /\ budget' = [budget EXCEPT !.ops = @ - 1]
  /\ UNCHANGED <<envVars, runner, chat, custom_ignores, indexerLive, customIgnores, indexVars, indexFresh,
                 orphans, initPending, query, lastRefresh, lastResult, since>>

\* a refreshIndex call on a replaced indexer settles: its caller (activation's
\* then, the analysis flow) sets lastIndexTime
OrphanDone ==
  /\ orphans > 0
  /\ orphans' = orphans - 1
  /\ indexFresh' = TRUE
  /\ UNCHANGED <<envVars, runner, chat, custom_ignores, indexerLive, customIgnores, indexVars, tasks,
                 initPending, query, lastRefresh, lastResult, since, budget>>

(***************************************************************************)
(* refreshIndex, buildTree and processFile, one action per await.          *)
(***************************************************************************)
Reverse(list) == [i \in 1..Len(list) |-> list[Len(list) + 1 - i]]

\* the files of a list that exist and that no ignore pattern covers
Enumerated(list, ignores) ==
  Pick(list, {i \in 1..Len(list) :
                /\ list[i] \in DOMAIN fs
                /\ KindOf(list[i]) # "absent"
                /\ ~Ignored(ignores, list[i])})

\* glob('**/*', {cwd, ignore, nodir: true})
glob(order, ignores) ==
  Enumerated(IF order = "asc" THEN AllFiles ELSE Reverse(AllFiles), ignores)

\* refreshIndex settles: it has no rejecting path (its catch logs and returns), so
\* the promise its callers await is fulfilled whatever happened
Settle(t, tk, error, ix, rootBefore) ==
  /\ lastRefresh' =
       [done |-> TRUE, error |-> error, settled |-> "fulfilled", then |-> tk.then,
        files |-> tk.files, snap |-> fs, before |-> tk.before, after |-> ix,
        rootBefore |-> rootBefore, base |-> tk.base, edits |-> tk.edits,
        overlap |-> tk.overlap, indexed |-> tk.indexed, read |-> tk.read,
        hasSeen |-> tk.hasSeen, seen |-> tk.seen, replaced |-> lastRefresh.replaced,
        resolved |-> tk.resolved, failed |-> tk.failed,
        prior |-> [done |-> lastRefresh.done, error |-> lastRefresh.error,
                   then |-> lastRefresh.then, files |-> lastRefresh.files,
                   overlap |-> lastRefresh.overlap,
                   indexed |-> lastRefresh.indexed, edits |-> lastRefresh.edits,
                   follows |-> lastRefresh.prior.done]]
  /\ tasks' = [tasks EXCEPT ![t] = IdleTask]
  /\ indexFresh' = IF tk.then \in {"activation", "analysis"} THEN TRUE ELSE indexFresh
  /\ since' = IF error THEN since ELSE [valid |-> tk.edits = <<>>, edits |-> <<>>]

TaskFrame ==
  UNCHANGED <<envVars, runner, chat, custom_ignores, indexerLive, customIgnores, orphans, initPending,
              query, lastResult, budget>>

\* glob throws: the pattern list does not compile, or the root cannot be read
GlobThrows(t) ==
  /\ tasks[t].pc = "glob"
  /\ GlobRejects(finalIgnores(customIgnores)) \/ ~rootOk
  /\ Settle(t, tasks[t], TRUE, Ix, root)
  /\ UNCHANGED indexVars /\ TaskFrame

\* glob resolves with the files it found (none under a root it cannot read)
GlobDone(t, order) ==
  /\ tasks[t].pc = "glob"
  /\ ~GlobRejects(finalIgnores(customIgnores))
  /\ tasks' = [tasks EXCEPT ![t].pc = "access",
                            ![t].files = IF rootOk
                                         THEN glob(order, finalIgnores(customIgnores))
                                         ELSE <<>>]
  /\ UNCHANGED <<indexVars, indexFresh, lastRefresh, since>> /\ TaskFrame

\* buildTree: await fs.access(currentPath); on failure the node
\* { hash: '', path, type: 'directory', children: [] } is returned and stored
AccessDone(t) ==
  /\ tasks[t].pc = "access"
  /\ IF rootOk
     THEN /\ tasks' = [tasks EXCEPT ![t].pc = "stat"]
          /\ UNCHANGED <<indexVars, indexFresh, lastRefresh, since>>
     ELSE /\ root' = [hash |-> EmptyHash, path |-> WORKSPACE, type |-> "directory",
                      children |-> <<>>]
          /\ Settle(t, tasks[t], TRUE, Ix, root)
          /\ UNCHANGED <<hashMap, symbolMap, dependencyMap>>
  /\ TaskFrame

\* BatchPhase without allFiles.slice(i, i + BATCH_SIZE): every remaining file is
\* started at once
BatchPhaseAll(files, i) == [k \in 1..(Len(files) - i) |-> "stat"]

\* the state of the files of the batch that starts at offset i: each processFile
\* has run up to its await of fs.stat
BatchPhase(files, i) ==
  [k \in 1..(IF Len(files) - i < BATCH_SIZE THEN Len(files) - i ELSE BATCH_SIZE) |-> "stat"]

\* validNodes = fileNodes.filter(n => n !== null)
validNodes(nodes) == Pick(nodes, {i \in 1..Len(nodes) : nodes[i].present})

\* the directory node buildTree returns
RootNode(fileNodes) ==
  LET valid == validNodes(fileNodes)
  IN [hash |-> computeHash([i \in 1..Len(valid) |-> valid[i].hash]),
      path |-> WORKSPACE, type |-> "directory", children |-> valid]

\* PushResults without the order of Promise.all: the nodes of a batch are reversed
PushResultsUnordered(fileNodes, results) == fileNodes \o Reverse(results)

\* where a batch's results go once Promise.all has them all
PushResults(fileNodes, results) == fileNodes \o results

\* after a step of processFile: when the batch is complete its results are pushed
\* and the next batch starts, or the tree is returned and stored in this.root
Continue(t, tk, ix) ==
  IF \E k \in 1..Len(tk.phase) : tk.phase[k] # "done"
  THEN /\ tasks' = [tasks EXCEPT ![t] = tk]
       /\ UNCHANGED <<root, indexFresh, lastRefresh, since>>
  ELSE LET nodes == PushResults(tk.fileNodes, tk.results)
           next  == tk.i + BATCH_SIZE
       IN IF next < Len(tk.files)
          THEN /\ tasks' = [tasks EXCEPT ![t] =
                              [tk EXCEPT !.i = next, !.fileNodes = nodes,
                                         !.phase = BatchPhase(tk.files, next),
                                         !.results = [k \in 1..Len(BatchPhase(tk.files, next))
                                                        |-> NullNode]]]
               /\ UNCHANGED <<root, indexFresh, lastRefresh, since>>
          ELSE /\ root' = RootNode(nodes)
               /\ Settle(t, [tk EXCEPT !.fileNodes = nodes], FALSE, ix, root)

\* buildTree: await fs.stat(currentPath); a root that has gone makes it throw, which
\* refreshIndex catches; else the first batch is started
StatDone(t) ==
  /\ tasks[t].pc = "stat"
  /\ IF rootOk
     THEN Continue(t, [tasks[t] EXCEPT !.pc = "batch", !.i = 0,
                                       !.phase = BatchPhase(tasks[t].files, 0),
                                       !.results = [k \in 1..Len(BatchPhase(tasks[t].files, 0))
                                                      |-> NullNode]],
                   Ix)
     ELSE /\ Settle(t, tasks[t], TRUE, Ix, root)
          /\ UNCHANGED root
  /\ UNCHANGED <<hashMap, symbolMap, dependencyMap>> /\ TaskFrame

\* processFile: await fs.stat(fullPath); a missing file throws and a file over
\* 500 KiB is skipped, both give null
FileStat(t, k) ==
  /\ tasks[t].pc = "batch"
  /\ k \in 1..Len(tasks[t].phase) /\ tasks[t].phase[k] = "stat"
  /\ LET f == tasks[t].files[tasks[t].i + k]
     IN Continue(t, [tasks[t] EXCEPT
                       !.phase[k] = IF KindOf(f) \in {"absent", "large"} THEN "done"
                                    ELSE "read",
                       !.failed = IF KindOf(f) = "absent"
                                  THEN @ \cup {PathJoin(WORKSPACE, f)} ELSE @],
                 Ix)
  /\ UNCHANGED <<hashMap, symbolMap, dependencyMap>> /\ TaskFrame

\* what the calls of resolveImportPath that indexContent makes for a file return,
\* each with the paths the digest table holds at the call
Resolutions(hm, fullPath, content) ==
  {[file |-> fullPath, raw |-> raw, known |-> Range(HashKeys(hm)),
    result |-> resolveImportPath(hm, fullPath, raw)] : raw \in Range(RawImports(content))}

\* processFile: await fs.readFile(fullPath); then, in one go, the digest is
\* compared with the recorded one and a changed file is recorded and indexed
FileRead(t, k) ==
  /\ tasks[t].pc = "batch"
  /\ k \in 1..Len(tasks[t].phase) /\ tasks[t].phase[k] = "read"
  /\ LET f        == tasks[t].files[tasks[t].i + k]
         fullPath == PathJoin(WORKSPACE, f)
         readable == KindOf(f) \in {"ok", "large"}
         ix       == IF readable THEN IndexFile(Ix, fullPath, fs[f].text) ELSE Ix
         tk       == [tasks[t] EXCEPT
                        !.phase[k] = "done",
                        !.results[k] = IF readable THEN FileNode(fullPath, fs[f].text)
                                       ELSE NullNode,
                        !.read = IF readable THEN @ \cup {fullPath} ELSE @,
                        !.failed = IF readable THEN @ ELSE @ \cup {fullPath},
                        !.indexed = IF readable /\ Changed(Ix, fullPath, fs[f].text)
                                     THEN Append(@, fullPath) ELSE @,
                        !.resolved = IF readable /\ Changed(Ix, fullPath, fs[f].text)
                                      THEN @ \cup Resolutions(ix.hashMap, fullPath, fs[f].text)
                                      ELSE @]
     IN /\ hashMap' = ix.hashMap
        /\ symbolMap' = ix.symbolMap
        /\ dependencyMap' = ix.dependencyMap
        /\ Continue(t, tk, ix)
  /\ TaskFrame

(***************************************************************************)
(* findRelevantContext: its synchronous part, then one action per read.    *)
(***************************************************************************)
Pending == [state |-> "pending", file |-> <<>>, text |-> NoText]

\* contents.join(""): the pieces of the files that were read, in order
Joined(parts) ==
  LET read == Pick(parts, {i \in 1..Len(parts) : parts[i].state = "read"})
  IN [i \in 1..Len(read) |-> [file |-> read[i].file, text |-> read[i].text]]

\* a query started while a rebuild is in flight: the rebuild's record of what
\* queries saw of the tables
NoteSeen ==
  tasks' = [t \in DOMAIN tasks |->
              IF Live(t) THEN [tasks[t] EXCEPT !.hasSeen = TRUE, !.seen = Ix] ELSE tasks[t]]

\* the files whose stat or read failed in the rebuild that completed last, when
\* no rebuild is in flight
Omitted ==
  IF lastRefresh.done /\ ~lastRefresh.error /\ \A t \in DOMAIN tasks : ~Live(t)
  THEN lastRefresh.failed ELSE {}

\* what the call that returned last returned, kept when the next call starts
Earlier ==
  IF lastResult.kind = "none" THEN lastResult.earlier
  ELSE [kind |-> lastResult.kind, text |-> lastResult.text, files |-> lastResult.files,
        entries |-> lastResult.entries, rebuilt |-> lastResult.rebuilt]

\* Selected with an order that changes from one call to the next
SelectedByTurn(text) ==
  IF budget.queries % 2 = 0 THEN filesToRead(Ix, text) ELSE Reverse(filesToRead(Ix, text))

\* the files a call selects from the tables as they are
Selected(text) == filesToRead(Ix, text)

QueryStart(text) ==
  /\ indexerLive
  /\ query.pc = "idle"
  /\ budget.queries > 0
  /\ budget' = [budget EXCEPT !.queries = @ - 1]
  /\ LET files == Selected(text)
     IN IF files = <<>>
        THEN \* return "No correlated files found."
             /\ lastResult' = [kind |-> "marker", text |-> text, files |-> <<>>,
                               ranked |-> sortedFiles(Ix, text), entries |-> <<>>,
                               ignores |-> customIgnores, rebuilt |-> lastRefresh.done,
                               known |-> Range(HashKeys(hashMap)), omitted |-> Omitted,
                               earlier |-> Earlier]
             /\ UNCHANGED query
        ELSE /\ query' = [pc |-> "reading", text |-> text, files |-> files,
                          parts |-> [k \in 1..Len(files) |-> Pending],
                          ranked |-> sortedFiles(Ix, text),
                          known |-> Range(HashKeys(hashMap)), omitted |-> Omitted]
             /\ lastResult' = [NoResult EXCEPT !.ignores = customIgnores,
                                                !.rebuilt = lastRefresh.done,
                                                !.earlier = Earlier]
  /\ NoteSeen
  /\ UNCHANGED <<envVars, runner, chat, custom_ignores, indexerLive, customIgnores, indexVars, indexFresh,
                 orphans, initPending, lastRefresh, since>>

\* one fs.readFile of the query settles; a failed read gives the piece ""
QueryRead(k) ==
  /\ query.pc = "reading"
  /\ k \in 1..Len(query.parts) /\ query.parts[k].state = "pending"
  /\ LET rel   == Relative(WORKSPACE, query.files[k])
         ok    == rel \in DOMAIN fs /\ KindOf(rel) \in {"ok", "large"}
         parts == [query.parts EXCEPT ![k] =
                     IF ok THEN [state |-> "read", file |-> rel, text |-> fs[rel].text]
                     ELSE [state |-> "failed", file |-> rel, text |-> NoText]]
     IN IF \E j \in 1..Len(parts) : parts[j].state = "pending"
        THEN /\ query' = [query EXCEPT !.parts = parts]
             /\ UNCHANGED lastResult
        ELSE /\ query' = IdleQuery
             /\ lastResult' = [kind |-> "bundle", text |-> query.text,
                               files |-> query.files, ranked |-> query.ranked,
                               entries |-> Joined(parts), ignores |-> lastResult.ignores,
                               rebuilt |-> lastResult.rebuilt, known |-> query.known,
                               omitted |-> query.omitted, earlier |-> lastResult.earlier]
  /\ UNCHANGED <<envVars, runner, chat, custom_ignores, indexerLive, customIgnores, indexVars, indexFresh,
                 tasks, orphans, initPending, lastRefresh, since, budget>>

(***************************************************************************)
(* The extension from its start on the small workspace.                    *)
(***************************************************************************)
\* the state before activate() runs, on filesystem files, with what the
\* environment and the user may still do
(***************************************************************************)
(* runProjectCommand: one child process, its 'data', 'close' and 'error'   *)
(* events, and the timer of five seconds.  Every listener runs to its end  *)
(* before the next event is delivered.                                     *)
(***************************************************************************)
UPPER_CASE ==
  <<"A","B","C","D","E","F","G","H","I","J","K","L","M",
    "N","O","P","Q","R","S","T","U","V","W","X","Y","Z">>
LOWER_CASE ==
  <<"a","b","c","d","e","f","g","h","i","j","k","l","m",
    "n","o","p","q","r","s","t","u","v","w","x","y","z">>

\* String.prototype.toLowerCase
toLowerCase(text) ==
  [i \in 1..Len(text) |->
     IF Contains(UPPER_CASE, text[i])
     THEN LOWER_CASE[CHOOSE k \in 1..Len(UPPER_CASE) : UPPER_CASE[k] = text[i]]
     ELSE text[i]]

KW_TRACEBACK ==
  <<"t","r","a","c","e","b","a","c","k"," ","(","m","o","s","t"," ","r","e","c","e","n","t",
    " ","c","a","l","l"," ","l","a","s","t",")">>
KW_REFERENCE == <<"r","e","f","e","r","e","n","c","e","e","r","r","o","r",":">>
KW_TYPE == <<"t","y","p","e","e","r","r","o","r",":">>
KW_SYNTAX == <<"s","y","n","t","a","x","e","r","r","o","r",":">>
KW_UNCAUGHT == <<"u","n","c","a","u","g","h","t"," ","e","x","c","e","p","t","i","o","n">>
KW_ERROR == <<"e","r","r","o","r",":">>
KW_NO_ERROR == <<"0"," ","e","r","r","o","r">>

checkForErrorKeywords(text) ==
  LET lower == toLowerCase(text)
  IN \/ Includes(lower, KW_TRACEBACK)
     \/ Includes(lower, KW_REFERENCE)
     \/ Includes(lower, KW_TYPE)
     \/ Includes(lower, KW_SYNTAX)
     \/ Includes(lower, KW_UNCAUGHT)
     \/ (Includes(lower, KW_ERROR) /\ ~Includes(lower, KW_NO_ERROR))

\* what a child process may write
ChunkOk == <<"o","k",";">>
ChunkTypeError == <<"T","y","p","e","E","r","r","o","r",":","x",";">>
ChunkError == <<"E","r","r","o","r",":","x",";">>
ChunkSummary == <<"0"," ","e","r","r","o","r","s",";">>
Chunks == {ChunkOk, ChunkTypeError, ChunkError, ChunkSummary}

\* the exit codes 'close' may carry ("null": the child was ended by a signal)
ExitCodes == {"0", "1", "null"}

SPAWN_ERROR == <<";","S","p","a","w","n"," ","E","r","r","o","r",":"," ","m">>

NoEvent == [event |-> "none", code |-> "none", output |-> <<>>]

IdleRunner ==
  [pc |-> "idle",              \* "spawned": the listeners are installed and the timer is set
   collectedOutput |-> <<>>,
   isResolved |-> FALSE,
   killed |-> FALSE,           \* child.killed
   closed |-> FALSE,           \* 'close' has been emitted
   errored |-> FALSE,          \* 'error' has been emitted
   timer |-> "none",           \* "armed", "fired"
   chunks |-> 0,               \* history: the 'data' events so far
   resolved |-> <<>>,          \* history: the arguments of the calls of resolve, in order
   first |-> NoEvent]          \* history: the first of 'close', 'error' and the timer to fire

\* listeners that do not look at isResolved
NeverResolved == FALSE

\* if (isResolved) return;   /   if (!isResolved ...)
AlreadyResolved == runner.isResolved

\* the first event is remembered, with the output collected when it fired
Noted(event, code) ==
  IF runner.first.event = "none"
  THEN [event |-> event, code |-> code, output |-> runner.collectedOutput]
  ELSE runner.first

RunnerFrame ==
  UNCHANGED <<fs, rootOk, custom_ignores, indexerLive, customIgnores, root, hashMap,
              symbolMap, dependencyMap, indexFresh, tasks, orphans, initPending, query,
              lastRefresh, lastResult, since, budget, chat>>

\* runProjectCommand is called: the child is spawned, the listeners are installed
\* and the timer is set
Run ==
  /\ runner.pc = "idle"
  /\ runner' = [IdleRunner EXCEPT !.pc = "spawned", !.timer = "armed"]
  /\ RunnerFrame

\* child.stdout.on('data') / child.stderr.on('data')
Data(chunk) ==
  /\ runner.pc = "spawned"
  /\ ~runner.closed
  /\ runner.chunks < MaxChunks
  /\ runner' = [runner EXCEPT !.collectedOutput = @ \o chunk, !.chunks = @ + 1]
  /\ RunnerFrame

\* child.on('close')
Close(code) ==
  /\ runner.pc = "spawned"
  /\ ~runner.closed
  /\ LET hasError == code # "0" \/ checkForErrorKeywords(runner.collectedOutput)
         seen     == [runner EXCEPT !.closed = TRUE, !.first = Noted("close", code)]
     IN runner' =
          IF AlreadyResolved THEN seen
          ELSE [seen EXCEPT
                  !.isResolved = TRUE,
                  !.resolved = Append(@, [output |-> runner.collectedOutput,
                                          hasError |-> hasError])]
  /\ RunnerFrame

\* child.on('error')
Error ==
  /\ runner.pc = "spawned"
  /\ ~runner.errored
  /\ LET seen == [runner EXCEPT !.errored = TRUE, !.first = Noted("error", "none")]
     IN runner' =
          IF AlreadyResolved THEN seen
          ELSE [seen EXCEPT
                  !.isResolved = TRUE,
                  !.resolved = Append(@, [output |-> runner.collectedOutput \o SPAWN_ERROR,
                                          hasError |-> TRUE])]
  /\ RunnerFrame

\* the callback of setTimeout(..., 5000)
Timeout ==
  /\ runner.pc = "spawned"
  /\ runner.timer = "armed"
  /\ LET likelyCrash == checkForErrorKeywords(runner.collectedOutput)
         seen        == [runner EXCEPT !.timer = "fired", !.first = Noted("timeout", "none")]
     IN runner' =
          IF ~AlreadyResolved /\ ~runner.killed
          THEN [seen EXCEPT
                  !.isResolved = TRUE,
                  !.killed = TRUE,
                  !.resolved = Append(@, [output |-> runner.collectedOutput,
                                          hasError |-> likelyCrash])]
          ELSE seen
  /\ RunnerFrame

(***************************************************************************)
(* AgentChatViewProvider._handleSendMessage: the handler of one user       *)
(* message, suspended at its awaits (getLLMConfig, callLlm,                *)
(* findRelevantContext, applyCompositeFix).  The webview listener that     *)
(* calls it is installed after _view is set, so the guard on _view passes. *)
(***************************************************************************)
IdleChat ==
  [pc |-> "idle",        \* "config", "llm", "search", "fix": the await the handler is at; "done"
   loopCount |-> 0,
   response |-> "none",  \* the answer of the model call the loop is working on
   sent |-> 0,           \* history: the user messages handled so far
   calls |-> 0,          \* history: the callLlm calls of this message
   posted |-> <<>>]      \* history: the messages this handler posted to the webview

\* what callLlm may resolve to (parseBlockResponse: a search query, file blocks,
\* both, or an explanation alone)
Answers ==
  { [searchQuery |-> s, fixes |-> n] : s \in BOOLEAN, n \in 0..1 }

Post(log, type, value) == Append(log, [type |-> type, value |-> value])

\* catch (error) { post assistantMessage 'Error: ...' } finally { ... }
Caught(log) ==
  Post(Post(Post(log, "assistantMessage", "error"), "setLoading", "false"), "statusUpdate", "")

\* the statements after the loop, then the finally block
Finished(log, explanation) ==
  Post(Post(Post(log, "assistantMessage", explanation), "setLoading", "false"),
       "statusUpdate", "")

\* a loop that runs once more
LoopOnceMore(loopCount) == loopCount <= MAX_LOOPS

\* while (loopCount < MAX_LOOPS)
LoopContinues(loopCount) == loopCount < MAX_LOOPS

ChatFrame ==
  UNCHANGED <<fs, rootOk, custom_ignores, indexerLive, customIgnores, root, hashMap,
              symbolMap, dependencyMap, indexFresh, tasks, orphans, initPending, query,
              lastRefresh, lastResult, since, budget, runner>>

\* the webview sends 'sendMessage': the handler runs up to await getLLMConfig()
\* (the attached files it reads on the way change nothing that is posted)
SendMessage ==
  /\ chat.pc \in {"idle", "done"}
  /\ chat.sent < MaxMessages
  /\ chat' = [IdleChat EXCEPT
                !.pc = "config",
                !.sent = chat.sent + 1,
                !.posted = Post(Post(<<>>, "userMessage", ""), "setLoading", "true")]
  /\ ChatFrame

\* the top of the while loop: the next model call, or the end of the loop
LoopTop(c, explanation) ==
  IF LoopContinues(c.loopCount)
  THEN [c EXCEPT !.pc = "llm", !.calls = @ + 1, !.response = "none"]
  ELSE [c EXCEPT !.pc = "done", !.posted = Finished(@, explanation)]

\* getLLMConfig settles: a configuration, null, or a rejection
ConfigDone(outcome) ==
  /\ chat.pc = "config"
  /\ chat' = IF outcome = "config"
             THEN LoopTop(chat, "")
             ELSE [chat EXCEPT !.pc = "done", !.posted = Caught(@)]
  /\ ChatFrame

\* callLlm settles with an answer
LlmDone(response) ==
  /\ chat.pc = "llm"
  /\ chat' =
       IF response.searchQuery /\ indexerLive
       THEN [chat EXCEPT !.pc = "search", !.response = response,
                         !.posted = Post(@, "statusUpdate", "Searching")]
       ELSE IF response.fixes > 0
       THEN [chat EXCEPT !.pc = "fix", !.response = response,
                         !.posted = Post(@, "statusUpdate", "Editing")]
       ELSE [chat EXCEPT !.pc = "done", !.posted = Finished(@, "explanation")]
  /\ ChatFrame

\* callLlm rejects
LlmFails ==
  /\ chat.pc = "llm"
  /\ chat' = [chat EXCEPT !.pc = "done", !.posted = Caught(@)]
  /\ ChatFrame

\* findRelevantContext settles (it catches its read failures): loopCount++; continue
SearchDone ==
  /\ chat.pc = "search"
  /\ chat' = LoopTop([chat EXCEPT !.loopCount = @ + 1], "")
  /\ ChatFrame

\* applyCompositeFix settles or rejects
FixDone(applied) ==
  /\ chat.pc = "fix"
  /\ chat' = [chat EXCEPT !.pc = "done",
                          !.posted = IF applied THEN Finished(@, "explanation") ELSE Caught(@)]
  /\ ChatFrame

Start(files, slots, edits, ops, queries) ==
  /\ fs = files
  /\ rootOk = TRUE
  /\ custom_ignores = <<>>
  /\ indexerLive = FALSE
  /\ customIgnores = <<>>
  /\ root = NoRoot
  /\ hashMap = <<>>
  /\ symbolMap = EmptyMap
  /\ dependencyMap = EmptyMap
  /\ indexFresh = FALSE
  /\ tasks = [t \in 1..slots |-> IdleTask]
  /\ orphans = 0
  /\ initPending = 0
  /\ query = IdleQuery
  /\ lastRefresh = NoRefresh
  /\ lastResult = NoResult
  /\ since = [valid |-> FALSE, edits |-> <<>>]
  /\ budget = [edits |-> edits, ops |-> ops, queries |-> queries]
  /\ runner = IdleRunner
  /\ chat = IdleChat

\* the steps of the refreshIndex calls in flight
Rebuild ==
  \/ \E t \in DOMAIN tasks : GlobThrows(t)
  \/ \E t \in DOMAIN tasks, order \in EnumOrders : GlobDone(t, order)
  \/ \E t \in DOMAIN tasks : AccessDone(t)
  \/ \E t \in DOMAIN tasks : StatDone(t)
  \/ \E t \in DOMAIN tasks, k \in 1..BATCH_SIZE : FileStat(t, k)
  \/ \E t \in DOMAIN tasks, k \in 1..BATCH_SIZE : FileRead(t, k)

\* the changes of the filesystem
Edit ==
  \/ \E f \in DOMAIN fs, text \in SysTexts : Modify(f, text)
  \/ \E f \in DOMAIN fs : Delete(f)
  \/ \E f \in DOMAIN fs : Protect(f)
  \/ \E f \in DOMAIN fs : Grow(f)
  \/ LoseRoot

(***************************************************************************)
(* Spec: the index of one indexer over its rebuilds (the one activation    *)
(* starts, the ones the analysis flow starts when the index is older than  *)
(* five minutes), on a filesystem that changes.                            *)
(***************************************************************************)
Init == Start(SysFs, MaxTasks, MaxEdits, MaxOps, 0)

Next ==
  \/ Activate
  \/ Edit
  \/ Tick
  \/ \E t \in DOMAIN tasks : AnalysisRefresh(t)
  \/ Rebuild

Spec == Init /\ [][Next]_vars

(***************************************************************************)
(* Properties of a rebuild, under Spec.                                    *)
(***************************************************************************)
\* the digests of the files of an enumeration that a rebuild over the snapshot reads
LeafDigests(snap, files) ==
  LET read == Pick(files, {i \in 1..Len(files) : snap[files[i]].kind = "ok"})
  IN [i \in 1..Len(read) |-> computeHash(<<snap[read[i]].text>>)]

\* a rebuild that ran to its end over a filesystem that did not change meanwhile
StableRebuild == lastRefresh.done /\ ~lastRefresh.error /\ lastRefresh.edits = <<>>

\* C5: the root digest a rebuild stores is the digest of the leaf digests in
\* enumeration order, a function of the snapshot and the enumeration alone:
\* no order of completion of the reads of a batch, and no earlier state of the
\* index, changes it, so two rebuilds of the same snapshot agree.
C5_RootDigestDeterministic ==
  StableRebuild =>
    root.hash = computeHash(LeafDigests(lastRefresh.snap, lastRefresh.files))

\* a rebuild from an empty index has stored the digest of three leaves
C5_Witness ==
  /\ StableRebuild
  /\ lastRefresh.before = EmptyIx
  /\ Len(root.children) = Len(SysFiles)
  /\ lastRefresh.files = Reverse(SysFiles)

\* the rebuild that settled last followed a completed rebuild of the same indexer,
\* with exactly one change of the filesystem in between: the content of one file
OneFileModified ==
  /\ StableRebuild
  /\ ~lastRefresh.overlap
  /\ lastRefresh.base.valid
  /\ Len(lastRefresh.base.edits) = 1
  /\ lastRefresh.base.edits[1].kind = "modify"

ModifiedPath == PathJoin(WORKSPACE, lastRefresh.base.edits[1].file)

\* the symbols whose list holds the path
SymbolsOf(sm, p) == {k \in DOMAIN sm : Contains(sm[k], p)}

PathsOf(ix) ==
  Range(HashKeys(ix.hashMap)) \cup DOMAIN ix.dependencyMap
  \cup UNION {Range(ix.symbolMap[k]) : k \in DOMAIN ix.symbolMap}

\* C3: after a completed rebuild, modifying one file and rebuilding indexes that
\* file only and leaves the digest, the dependency entry and the symbol
\* contributions of every other file as they were.
C3_OnlyModifiedFileReindexed ==
  OneFileModified =>
    /\ lastRefresh.indexed = <<ModifiedPath>>
    /\ \A q \in (PathsOf(lastRefresh.before) \cup PathsOf(lastRefresh.after)) \ {ModifiedPath} :
         /\ HashGet(lastRefresh.after.hashMap, q) = HashGet(lastRefresh.before.hashMap, q)
         /\ (q \in DOMAIN lastRefresh.after.dependencyMap)
              = (q \in DOMAIN lastRefresh.before.dependencyMap)
         /\ MapGet(lastRefresh.after.dependencyMap, q)
              = MapGet(lastRefresh.before.dependencyMap, q)
         /\ SymbolsOf(lastRefresh.after.symbolMap, q)
              = SymbolsOf(lastRefresh.before.symbolMap, q)

\* such a rebuild has happened, over an index that held three files
C3_Witness ==
  /\ OneFileModified
  /\ Len(lastRefresh.before.hashMap) = Len(SysFiles)
  /\ HashGet(lastRefresh.after.hashMap, ModifiedPath)
       # HashGet(lastRefresh.before.hashMap, ModifiedPath)

\* C6: a rebuild that ends in a traversal-level failure leaves a previously built
\* index (root node, digests, symbols, dependencies) exactly as it was.
C6_FailureKeepsIndex ==
  [][(/\ lastRefresh' # lastRefresh
      /\ lastRefresh'.done /\ lastRefresh'.error
      /\ root.type = "directory")
     => UNCHANGED indexVars]_vars

\* C7: a rebuild that hit a traversal-level failure delivers a failure to its
\* caller: its promise is rejected, it does not settle like a successful one.
C7_FailureDelivered ==
  (lastRefresh.done /\ lastRefresh.error) => lastRefresh.settled = "rejected"

\* C8: after a completed rebuild the paths with a digest record are exactly the
\* paths that rebuild read (the files that pass the ignore filter and could be read).
C8_RecordsAreFilesRead ==
  (lastRefresh.done /\ ~lastRefresh.error) =>
    Range(HashKeys(lastRefresh.after.hashMap)) = lastRefresh.read

(***************************************************************************)
(* QuerySpec: queries of the chat loop while the rebuild that activation   *)
(* starts is in flight or done, on a filesystem that changes.              *)
(***************************************************************************)
QueryInit == Start(SysFs, MaxTasks, MaxEdits, 0, MaxQueries)

QueryNext ==
  \/ Activate
  \/ Edit
  \/ Rebuild
  \/ \E text \in SysQueries : QueryStart(text)
  \/ \E k \in 1..MAX_FILES : QueryRead(k)

QuerySpec == QueryInit /\ [][QueryNext]_vars

\* C2: a query that ran while a rebuild was in flight saw the tables as they were
\* before that rebuild started or as they were after it finished
C2_NoPartialIndexObserved ==
  (lastRefresh.done /\ ~lastRefresh.error /\ lastRefresh.hasSeen)
    => lastRefresh.seen \in {lastRefresh.before, lastRefresh.after}

\* C10: a result of findRelevantContext that is not the marker carries the content
\* of at least one file
C10_BundleNeverEmpty ==
  lastResult.kind = "bundle" => Len(lastResult.entries) > 0

(***************************************************************************)
(* SettingsSpec: the settings commands (ignore list, rebuild index,        *)
(* factory reset), the rebuilds they start and the queries in between.     *)
(***************************************************************************)
SettingsInit == Start(SysFs, MaxTasks, 0, MaxOps, MaxQueries)

SettingsNext ==
  \/ Activate
  \/ \E pattern \in UserPatterns : AddIgnore(pattern)
  \/ \E pattern \in UserPatterns : RemoveIgnore(pattern)
  \/ ForcedInit
  \/ RebuildIndex
  \/ FactoryReset
  \/ OrphanDone
  \/ Rebuild
  \/ \E text \in SysQueries : QueryStart(text)
  \/ \E k \in 1..MAX_FILES : QueryRead(k)

SettingsSpec == SettingsInit /\ [][SettingsNext]_vars

\* the files of a result that a pattern of an ignore list covers
Covered(files, ignores) ==
  {i \in 1..Len(files) : Ignored(finalIgnores(ignores), Relative(WORKSPACE, files[i]))}

BigInit == Start(BigFs, MaxTasks, 0, 0, MaxQueries)

BigNext ==
  \/ Activate
  \/ \E t \in DOMAIN tasks, order \in EnumOrders : GlobDone(t, order)
  \/ \E t \in DOMAIN tasks : AccessDone(t)
  \/ \E t \in DOMAIN tasks : StatDone(t)
  \/ \E t \in DOMAIN tasks, k \in 1..BATCH_SIZE : FileStat(t, k)
  \/ \E t \in DOMAIN tasks, k \in 1..BATCH_SIZE : FileRead(t, k)
  \/ \E text \in BigQueries : QueryStart(text)
  \/ \E k \in 1..MAX_FILES : QueryRead(k)

BigSpec == BigInit /\ [][BigNext]_vars

\* C1: the files a query reads, and the bundle it returns, are at most MAX_FILES
C1_BundleAtMostMaxFiles ==
  /\ Len(query.files) <= MAX_FILES
  /\ Len(lastResult.files) <= MAX_FILES
  /\ Len(lastResult.entries) <= MAX_FILES

\* a query whose seed files and their imports are more than MAX_FILES files was
\* answered with the content of MAX_FILES files
C1_Witness ==
  /\ lastResult.kind = "bundle"
  /\ Len(expandedFiles(Ix, lastResult.text)) > MAX_FILES
  /\ Len(lastResult.files) = MAX_FILES
  /\ Len(lastResult.entries) = MAX_FILES

\* the files of a ranking that the query text names by base name
NamedIn(text, ranked) ==
  {i \in 1..Len(ranked) : Includes(text, Basename(ranked[i]))}

\* the files of a ranking that scored through their symbols only
BySymbolsOnly(text, ranked) ==
  {i \in 1..Len(ranked) :
     ~Includes(text, Basename(ranked[i])) /\ ~Includes(text, ranked[i])}

\* C4: in the ranking of a query, a file whose base name the query text contains
\* comes before every file that scored through symbols only
C4_NamedFileRanksFirst ==
  lastResult.kind # "none"
    => \A i \in NamedIn(lastResult.text, lastResult.ranked),
          j \in BySymbolsOnly(lastResult.text, lastResult.ranked) : i < j

(***************************************************************************)
(* PairSpec: queries on the workspace of two files, from activation on.    *)
(***************************************************************************)
PairInit == Start(PairFs, MaxTasks, 0, 0, MaxQueries)

PairNext ==
  \/ Activate
  \/ \E t \in DOMAIN tasks, order \in EnumOrders : GlobDone(t, order)
  \/ \E t \in DOMAIN tasks : AccessDone(t)
  \/ \E t \in DOMAIN tasks : StatDone(t)
  \/ \E t \in DOMAIN tasks, k \in 1..BATCH_SIZE : FileStat(t, k)
  \/ \E t \in DOMAIN tasks, k \in 1..BATCH_SIZE : FileRead(t, k)
  \/ \E text \in PairQueries : QueryStart(text)
  \/ \E k \in 1..MAX_FILES : QueryRead(k)

PairSpec == PairInit /\ [][PairNext]_vars

\* C11: on the workspace of main.x (imports utils.x, calls parseConfig) and
\* utils.x (declares parseConfig), both indexed, the query "parseConfig threw an
\* error in main.x" returns a bundle that holds both files, main.x first and
\* utils.x second.
C11_ErrorFileThenHelper ==
  /\ lastResult.kind # "none"
  /\ lastResult.text = Q_ParseConfig
  /\ {PathJoin(WORKSPACE, F_Main), PathJoin(WORKSPACE, F_Utils)} \subseteq lastResult.known
  => /\ lastResult.kind = "bundle"
     /\ lastResult.files = <<PathJoin(WORKSPACE, F_Main), PathJoin(WORKSPACE, F_Utils)>>
     /\ lastResult.entries = <<[file |-> F_Main, text |-> TextMain],
                               [file |-> F_Utils, text |-> TextUtils]>>

\* the query was answered from an index that held both files, and the import of
\* main.x had not resolved (main.x was indexed before utils.x): utils.x is in
\* the bundle by its symbol alone
C11_Witness ==
  /\ lastResult.kind = "bundle"
  /\ lastResult.text = Q_ParseConfig
  /\ {PathJoin(WORKSPACE, F_Main), PathJoin(WORKSPACE, F_Utils)} \subseteq lastResult.known
  /\ MapGet(dependencyMap, PathJoin(WORKSPACE, F_Main)) = <<>>

(***************************************************************************)
(* Properties of the dependency table.                                     *)
(***************************************************************************)
\* C12: after a rebuild has completed, every import of a file it indexed whose
\* target is a file of the same rebuild is an edge of the dependency table,
\* whatever the enumeration order and the order in which the reads completed.
C12_InternalImportsAreEdges ==
  (StableRebuild /\ lastRefresh.before = EmptyIx) =>
    \A f \in Range(lastRefresh.files) :
      LET p    == PathJoin(WORKSPACE, f)
          raws == RawImports(lastRefresh.snap[f].text)
      IN p \in lastRefresh.read =>
           \A i \in 1..Len(raws) :
             LET target == resolveImportPath(lastRefresh.after.hashMap, p, raws[i])
             IN target \in lastRefresh.read
                  => Contains(MapGet(lastRefresh.after.dependencyMap, p), target)

(***************************************************************************)
(* ResolverSpec: the rebuilds of the workspace of the resolver, on a       *)
(* filesystem that changes: resolveImportPath is called with every set of  *)
(* indexed candidates the orders of enumeration and of the reads give.     *)
(***************************************************************************)
ResolverInit == Start(ResolverFs, MaxTasks, MaxEdits, 0, 0)

ResolverNext ==
  \/ Activate
  \/ Edit
  \/ Rebuild

ResolverSpec == ResolverInit /\ [][ResolverNext]_vars

\* the content the digest of an indexed path was computed from
ContentOf(hm, p) == HashGet(hm, p).of[1]

\* the dependency list is what the raw imports give when every raw import has one
\* answer: equal raw imports are all resolved or all dropped, and resolve alike
OneAnswerEach(raws, deps) ==
  \E keep \in SUBSET (1..Len(raws)) :
    /\ \A i, j \in 1..Len(raws) : raws[i] = raws[j] => (i \in keep <=> j \in keep)
    /\ Len(deps) = Cardinality(keep)
    /\ \A n, m \in 1..Len(deps) :
         Pick(raws, keep)[n] = Pick(raws, keep)[m] => deps[n] = deps[m]

ResolverCalls ==
  lastRefresh.resolved \cup UNION {tasks[t].resolved : t \in DOMAIN tasks}

\* the least number of a nonempty set of numbers
Least(S) == CHOOSE i \in S : \A j \in S : i <= j

\* C17: an import resolves to the first hit in a fixed order: the exact resolved
\* path if it is indexed; else the path with the first extension of
\* SUPPORTED_EXTENSIONS, in list order, that gives an indexed path; else the
\* first directory index convention, in list order, that gives an indexed path;
\* else it is unresolved.  With several candidates indexed the earliest wins.
C17_FirstHitWins ==
  \A call \in ResolverCalls :
    LET base    == Resolve(Dirname(call.file), call.raw)
        extHits == {i \in 1..Len(SUPPORTED_EXTENSIONS) :
                      (base \o SUPPORTED_EXTENSIONS[i]) \in call.known}
        dirHits == {i \in 1..Len(indexExtensions) :
                      (base \o indexExtensions[i]) \in call.known}
    IN call.result =
         IF base \in call.known THEN base
         ELSE IF extHits # {} THEN base \o SUPPORTED_EXTENSIONS[Least(extHits)]
         ELSE IF dirHits # {} THEN base \o indexExtensions[Least(dirHits)]
         ELSE <<>>

\* './u' was resolved from m.ts when u.ts, u.js and u/index.ts were all indexed,
\* and gave u.ts
C17_Witness ==
  \E call \in ResolverCalls :
    /\ call.file = PathJoin(WORKSPACE, F_M)
    /\ {PathJoin(WORKSPACE, F_UJs), PathJoin(WORKSPACE, F_UTs),
        PathJoin(WORKSPACE, F_UIndex)} \subseteq call.known
    /\ call.result = PathJoin(WORKSPACE, F_UTs)

(***************************************************************************)
(* Properties of the files a rebuild skips, under Spec.                    *)
(***************************************************************************)
\* the digest of the node buildTree gives a path over 500 KiB
SKIPPED_LARGE == [alg |-> "skipped_large", of |-> <<>>]

\* C14: every enumerated file over 500 KiB is a leaf of the tree with the
\* "skipped: too large" sentinel digest and its content is not indexed, also
\* when it was under the ceiling, and indexed, at the previous rebuild.
C14_LargeFileIsSentinelLeaf ==
  StableRebuild =>
    \A f \in Range(lastRefresh.files) :
      lastRefresh.snap[f].kind = "large" =>
        /\ \E i \in 1..Len(root.children) :
             /\ root.children[i].path = PathJoin(WORKSPACE, f)
             /\ root.children[i].hash = SKIPPED_LARGE
        /\ ~Contains(lastRefresh.indexed, PathJoin(WORKSPACE, f))

(***************************************************************************)
(* StaleSpec: the workspace of two files while the permissions of its      *)
(* files are taken away and given back, with the rebuilds of the analysis  *)
(* flow and the queries in between.                                        *)
(***************************************************************************)
StaleInit == Start(PairFs, MaxTasks, MaxFaults, MaxRefreshes, MaxQueries)

StaleNext ==
  \/ Activate
  \/ \E f \in DOMAIN fs : Protect(f)
  \/ \E f \in DOMAIN fs : Restore(f)
  \/ Tick
  \/ \E t \in DOMAIN tasks : AnalysisRefresh(t)
  \/ \E t \in DOMAIN tasks, order \in EnumOrders : GlobDone(t, order)
  \/ \E t \in DOMAIN tasks : AccessDone(t)
  \/ \E t \in DOMAIN tasks : StatDone(t)
  \/ \E t \in DOMAIN tasks, k \in 1..BATCH_SIZE : FileStat(t, k)
  \/ \E t \in DOMAIN tasks, k \in 1..BATCH_SIZE : FileRead(t, k)
  \/ QueryStart(Q_ParseConfig)
  \/ \E k \in 1..MAX_FILES : QueryRead(k)

StaleSpec == StaleInit /\ [][StaleNext]_vars

\* after a rebuild in which the read of a file failed, the file is not a leaf of
\* the tree
C15_FailedReadIsNoLeaf ==
  (lastRefresh.done /\ ~lastRefresh.error) =>
    \A i \in 1..Len(root.children) : root.children[i].path \notin lastRefresh.failed

\* C15: a file whose read fails during a rebuild is absent from the index for
\* that run: it is not a leaf of the tree, and no query issued after that
\* rebuild returns it, even if an earlier rebuild had indexed it.
C15_FailedReadNotReturned ==
  /\ C15_FailedReadIsNoLeaf
  /\ lastResult.kind = "bundle" =>
       \A i \in 1..Len(lastResult.entries) :
         PathJoin(WORKSPACE, lastResult.entries[i].file) \notin lastResult.omitted

\* C16: in every reachable state every path stored in an entry of the dependency
\* table is a key of the file digest table.
C16_EdgesPointToIndexedFiles ==
  \A p \in DOMAIN dependencyMap :
    \A i \in 1..Len(dependencyMap[p]) : HashHas(hashMap, dependencyMap[p][i])

\* a.ts has its edge to b.ts, and the import of b.ts was dropped: its target
\* s/k.ts had no digest yet when b.ts was indexed
C16_Witness ==
  /\ lastRefresh.done
  /\ MapGet(dependencyMap, PathJoin(WORKSPACE, F_A)) = <<PathJoin(WORKSPACE, F_B)>>
  /\ HashHas(hashMap, PathJoin(WORKSPACE, F_B))
  /\ ContentOf(hashMap, PathJoin(WORKSPACE, F_B)) = TextBar
  /\ MapGet(dependencyMap, PathJoin(WORKSPACE, F_B)) = <<>>
  /\ HashHas(hashMap, PathJoin(WORKSPACE, F_K))

(***************************************************************************)
(* Properties of the batches of a rebuild, under Spec.                     *)
(***************************************************************************)
\* the files of a rebuild whose processFile has been called and has not returned
InFlight(tk) == {k \in 1..Len(tk.phase) : tk.phase[k] # "done"}

\* the paths of the files of a rebuild at the positions 1..n of its enumeration
Started(tk, n) ==
  {PathJoin(WORKSPACE, tk.files[j]) : j \in {j \in 1..Len(tk.files) : j <= n}}

\* C18: during a rebuild no file of batch k+1 starts being read before every
\* file of batch k has finished, so at most BATCH_SIZE reads are in flight at
\* any instant.
C18_BatchesDoNotOverlap ==
  \A t \in DOMAIN tasks :
    tasks[t].pc = "batch" =>
      /\ Cardinality(InFlight(tasks[t])) <= BATCH_SIZE
      /\ Len(tasks[t].phase) <= BATCH_SIZE
      /\ Len(tasks[t].fileNodes) = tasks[t].i
      /\ tasks[t].i % BATCH_SIZE = 0
      /\ (tasks[t].read \cup tasks[t].failed)
           \subseteq Started(tasks[t], tasks[t].i + Len(tasks[t].phase))

\* the second batch of a rebuild is being read: the nodes of the first batch
\* have been collected
C18_Witness ==
  \E t \in DOMAIN tasks :
    /\ tasks[t].pc = "batch"
    /\ tasks[t].i = BATCH_SIZE
    /\ InFlight(tasks[t]) # {}
    /\ Len(tasks[t].fileNodes) = BATCH_SIZE
    /\ Len(tasks[t].files) > BATCH_SIZE

(***************************************************************************)
(* Properties of the selection of files, under QuerySpec.                  *)
(***************************************************************************)
\* a step that is a call of findRelevantContext
QueryCalled == query.pc = "idle" /\ budget'.queries < budget.queries

\* the files the call selects for reading (none when it returns the marker) and
\* the ranking it computed
SelectedByCall == IF query'.pc = "reading" THEN query'.files ELSE <<>>

RankedByCall == IF query'.pc = "reading" THEN query'.ranked ELSE lastResult'.ranked

TextOfCall == IF query'.pc = "reading" THEN query'.text ELSE lastResult'.text

\* the score of a file for a query, times ScoreDen; 0 for a file without a score
ScoreOf(ix, text, f) ==
  LET scores == fileScores(ix, text)
      at     == {i \in 1..Len(scores) : scores[i].file = f}
  IN IF at = {} THEN 0 ELSE scores[CHOOSE i \in at : TRUE].score

\* C19: the files of a query result are the (at most TOP_MATCHES) highest-scoring
\* seeds in rank order, followed only by files that are a direct entry of a
\* seed in the dependency table: every seed comes before every non-seed, the
\* cap of MAX_FILES removes no seed, and a file reachable only through two or
\* more hops is not included.
C19_SeedsThenDirectImports ==
  [][QueryCalled =>
       LET seeds == Slice(RankedByCall, TOP_MATCHES)
           files == SelectedByCall
       IN /\ \A i \in 1..Len(seeds) :
               \A j \in (i + 1)..Len(RankedByCall) :
                 ScoreOf(Ix, TextOfCall, seeds[i]) >= ScoreOf(Ix, TextOfCall, RankedByCall[j])
          /\ Len(files) >= Len(seeds)
          /\ SubSeq(files, 1, Len(seeds)) = seeds
          /\ \A i \in (Len(seeds) + 1)..Len(files) :
               /\ ~Contains(seeds, files[i])
               /\ \E j \in 1..Len(seeds) :
                    Contains(MapGet(dependencyMap, seeds[j]), files[i])]_vars

\* "foo failed in a.ts" was answered from a complete index in which a.ts imports
\* b.ts and b.ts imports s/k.ts: the bundle is a.ts, b.ts, without s/k.ts
C19_Witness ==
  /\ lastResult.kind = "bundle"
  /\ lastResult.rebuilt
  /\ lastResult.text = Q_FooInA
  /\ lastResult.files = <<PathJoin(WORKSPACE, F_A), PathJoin(WORKSPACE, F_B)>>
  /\ MapGet(dependencyMap, PathJoin(WORKSPACE, F_A)) = <<PathJoin(WORKSPACE, F_B)>>
  /\ MapGet(dependencyMap, PathJoin(WORKSPACE, F_B)) = <<PathJoin(WORKSPACE, F_K)>>

(***************************************************************************)
(* Properties of the scores, under QuerySpec.                              *)
(***************************************************************************)
\* the distinct tokens of a query that are keys of the symbol table with the
\* file in their list
TokensFor(sm, text, f) ==
  {token \in Range(uniqueTokens(text)) : token \in DOMAIN sm /\ Contains(sm[token], f)}

\* the sum of SYMBOL_WEIGHT / (number of declaring paths + 1) over a set of
\* tokens, times den
RECURSIVE SharesOf(_, _, _)
SharesOf(sm, tokens, den) ==
  IF tokens = {} THEN 0
  ELSE LET token == CHOOSE x \in tokens : TRUE
       IN (SYMBOL_WEIGHT * den) \div (Len(sm[token]) + 1)
          + SharesOf(sm, tokens \ {token}, den)

\* C20: the score of a file for a query is 100 if its base name or its full
\* path is a substring of the query (0 otherwise), plus, for each distinct query
\* token that is a key of the symbol table whose list holds the file,
\* 10 / (number of declaring paths + 1); so a token declared by fewer files
\* never adds less than a token declared by more.
C20_ScoreFormula ==
  LET den == ScoreDen(symbolMap)
  IN /\ \A text \in SysQueries :
          LET scores == fileScores(Ix, text)
          IN \A i \in 1..Len(scores) :
               LET f == scores[i].file
               IN scores[i].score =
                    (IF Includes(text, Basename(f)) \/ Includes(text, f)
                     THEN EXPLICIT_SCORE * den ELSE 0)
                    + SharesOf(symbolMap, TokensFor(symbolMap, text, f), den)
     /\ \A token \in DOMAIN symbolMap :
          Weight(symbolMap, token, den) * (Len(symbolMap[token]) + 1) = SYMBOL_WEIGHT * den
     /\ \A t1, t2 \in DOMAIN symbolMap :
          Len(symbolMap[t1]) <= Len(symbolMap[t2])
            => Weight(symbolMap, t1, den) >= Weight(symbolMap, t2, den)

\* foo is declared by two files and another symbol by one; "foo failed in a.ts"
\* ranked a.ts (named, and a declarer of foo) before b.ts (a declarer of foo)
C20_Witness ==
  /\ lastResult.kind = "bundle"
  /\ lastResult.text = Q_FooInA
  /\ lastResult.ranked = <<PathJoin(WORKSPACE, F_A), PathJoin(WORKSPACE, F_B)>>
  /\ Len(MapGet(symbolMap, <<"f","o","o">>)) = 2
  /\ \E token \in DOMAIN symbolMap : Len(symbolMap[token]) = 1
  /\ ScoreOf(Ix, Q_FooInA, PathJoin(WORKSPACE, F_B)) * 3 = SYMBOL_WEIGHT * ScoreDen(symbolMap)

(***************************************************************************)
(* Properties of the tokens of a query, under PairSpec.                    *)
(***************************************************************************)
\* C21: the query is split on every character that is not a letter, a digit or
\* an underscore, so a declared symbol that occurs in the query between such
\* characters (as parseConfig in "utils.parseConfig") is a token and adds its
\* weight to the files that declare it.
C21_DelimitedSymbolScores ==
  lastResult.kind # "none" =>
    \A symbol \in Range(Runs(lastResult.text, IdentChars)) \cap DOMAIN symbolMap :
      \A i \in 1..Len(symbolMap[symbol]) :
        symbolMap[symbol][i] \in lastResult.known
          => Contains(lastResult.ranked, symbolMap[symbol][i])

(***************************************************************************)
(* Properties of the symbol table.                                         *)
(***************************************************************************)
\* path.parse(filePath).name: the base name without its last extension (a dot
\* at the start of the base name starts no extension)
ParsedName(p) ==
  LET base == Basename(p)
      dots == {i \in 2..Len(base) : base[i] = "."}
  IN IF dots = {} THEN base
     ELSE SubSeq(base, 1, (CHOOSE i \in dots : \A j \in dots : j <= i) - 1)

\* the names too generic to be a symbol
GENERIC_NAMES == {<<"i","n","d","e","x">>, <<"m","a","i","n">>, <<"a","p","p">>}

\* C22: whenever a file is indexed, its base name without extension is a symbol
\* of the symbol table declared at the file's path, unless the name is shorter
\* than 3 characters or is one of index, main, app.
C22_BaseNameIsSymbol ==
  \A p \in Range(HashKeys(hashMap)) :
    (Len(ParsedName(p)) >= MIN_TOKEN_LENGTH /\ ParsedName(p) \notin GENERIC_NAMES)
      => Contains(MapGet(symbolMap, ParsedName(p)), p)

\* C23: within one indexer instance the symbol table only grows: a path listed
\* under a symbol stays in that list, also when the file is indexed again with a
\* content that no longer declares the symbol or when the file is deleted; and a
\* path enters a list only in a step that changes the digest recorded for it.
C23_SymbolTableAdditive ==
  [][indexerLive =>
       /\ \A symbol \in DOMAIN symbolMap :
            /\ symbol \in DOMAIN symbolMap'
            /\ Len(symbolMap'[symbol]) >= Len(symbolMap[symbol])
            /\ SubSeq(symbolMap'[symbol], 1, Len(symbolMap[symbol])) = symbolMap[symbol]
       /\ \A symbol \in DOMAIN symbolMap' :
            \A q \in Range(symbolMap'[symbol]) \ Range(MapGet(symbolMap, symbol)) :
              /\ HashHas(hashMap', q)
              /\ HashGet(hashMap', q) # HashGet(hashMap, q)]_vars

\* a rebuild has completed and a file is listed under a symbol that the content
\* recorded for it does not declare
C23_Witness ==
  /\ lastRefresh.done
  /\ \E q \in Range(HashKeys(hashMap)), symbol \in DOMAIN symbolMap :
       /\ Contains(symbolMap[symbol], q)
       /\ ~Contains(ContentOf(hashMap, q).defs, symbol)

(***************************************************************************)
(* TwiceSpec: two calls of findRelevantContext on the small workspace,     *)
(* which does not change, from activation on.                              *)
(***************************************************************************)
TwiceInit == Start(SysFs, MaxTasks, 0, 0, MaxRepeats)

TwiceNext ==
  \/ Activate
  \/ \E t \in DOMAIN tasks, order \in EnumOrders : GlobDone(t, order)
  \/ \E t \in DOMAIN tasks : AccessDone(t)
  \/ \E t \in DOMAIN tasks : StatDone(t)
  \/ \E t \in DOMAIN tasks, k \in 1..BATCH_SIZE : FileStat(t, k)
  \/ \E t \in DOMAIN tasks, k \in 1..BATCH_SIZE : FileRead(t, k)
  \/ \E text \in {Q_FooBar, Q_FooInA} : QueryStart(text)
  \/ \E k \in 1..MAX_FILES : QueryRead(k)

TwiceSpec == TwiceInit /\ [][TwiceNext]_vars

\* both calls were made after the rebuild had completed, with the same text
SameCallTwice ==
  /\ lastResult.kind # "none" /\ lastResult.earlier.kind # "none"
  /\ lastResult.rebuilt /\ lastResult.earlier.rebuilt
  /\ lastResult.text = lastResult.earlier.text

RunnerInit == Start(SysFs, 0, 0, 0, 0)

RunnerNext ==
  \/ Run
  \/ \E chunk \in Chunks : Data(chunk)
  \/ \E code \in ExitCodes : Close(code)
  \/ Error
  \/ Timeout

RunnerSpec == RunnerInit /\ [][RunnerNext]_vars

\* the result the first event calls for
Decided(first) ==
  CASE first.event = "timeout" ->
         [output |-> first.output, hasError |-> checkForErrorKeywords(first.output)]
    [] first.event = "close" ->
         [output |-> first.output,
          hasError |-> first.code # "0" \/ checkForErrorKeywords(first.output)]
    [] first.event = "error" ->
         [output |-> first.output \o SPAWN_ERROR, hasError |-> TRUE]

\* C25: runProjectCommand resolves exactly once in every interleaving of 'close',
\* 'error' and the timer: resolve is never called before the first of them and
\* is called once by it, with the result that event calls for on the output
\* collected so far (the timer: hasError iff an error keyword is in the output,
\* and the child is killed; 'close': hasError iff the exit code is not 0 or a
\* keyword is in the output; 'error': hasError), and no later event calls it again.
C25_ResolvedOnceByFirstEvent ==
  IF runner.first.event = "none"
  THEN runner.resolved = <<>> /\ ~runner.killed
  ELSE /\ runner.resolved = <<Decided(runner.first)>>
       /\ runner.isResolved
       /\ runner.killed = (runner.first.event = "timeout")

\* the timer fired first on output without a keyword, and 'close' came after it
C25_Witness ==
  /\ runner.first.event = "timeout"
  /\ runner.closed
  /\ runner.chunks > 0
  /\ ~runner.resolved[1].hasError

(***************************************************************************)
(* ChatSpec: user messages handled by the chat agent while the index is    *)
(* built.  Every awaited promise settles (the model answers, the search    *)
(* and the edits end): weak fairness of the handler's steps.               *)
(***************************************************************************)
ChatInit == Start(SysFs, MaxTasks, 0, 0, 0)

\* the awaited promise of the handler settles
ChatStep ==
  \/ \E outcome \in {"config", "null", "throws"} : ConfigDone(outcome)
  \/ \E response \in Answers : LlmDone(response)
  \/ LlmFails
  \/ SearchDone
  \/ \E applied \in BOOLEAN : FixDone(applied)

ChatNext ==
  \/ Activate
  \/ \E t \in DOMAIN tasks, order \in EnumOrders : GlobDone(t, order)
  \/ \E t \in DOMAIN tasks : AccessDone(t)
  \/ \E t \in DOMAIN tasks : StatDone(t)
  \/ \E t \in DOMAIN tasks, k \in 1..BATCH_SIZE : FileStat(t, k)
  \/ \E t \in DOMAIN tasks, k \in 1..BATCH_SIZE : FileRead(t, k)
  \/ SendMessage
  \/ ChatStep

ChatSpec == ChatInit /\ [][ChatNext]_vars /\ WF_vars(ChatStep)

Posted(type) == {i \in 1..Len(chat.posted) : chat.posted[i].type = type}

LoadingOff == [type |-> "setLoading", value |-> "false"]

\* what is posted for the message being handled, and the model calls made for it
HandledInBounds ==
  /\ chat.calls <= MAX_LOOPS
  /\ chat.pc \in {"config", "llm", "search", "fix"} =>
       /\ Posted("assistantMessage") = {}
       /\ ~Contains(chat.posted, LoadingOff)
  /\ chat.pc = "done" =>
       /\ Cardinality(Posted("assistantMessage")) = 1
       /\ \A i \in Posted("assistantMessage") :
            i < Len(chat.posted) /\ chat.posted[i + 1] = LoadingOff
       /\ Cardinality({i \in 1..Len(chat.posted) : chat.posted[i] = LoadingOff}) = 1

\* C26: for every user message, whatever the model answers, the handler makes at
\* most three model calls and ends, having posted exactly one assistantMessage
\* with setLoading = false as the next message after it.
C26_AgentLoopBounded ==
  /\ []HandledInBounds
  /\ (chat.pc \in {"config", "llm", "search", "fix"}) ~> (chat.pc = "done")

\* a message whose three model calls all asked for a search has been handled
C26_Witness ==
  /\ chat.pc = "done"
  /\ chat.calls = MAX_LOOPS
  /\ chat.loopCount = MAX_LOOPS
  /\ Cardinality(Posted("statusUpdate")) = MAX_LOOPS + 1
  /\ Cardinality(Posted("assistantMessage")) = 1

(***************************************************************************)
(* OverlapSpec: the rebuild activation starts and does not await, and the  *)
(* rebuild the analysis flow starts on the same indexer while lastIndexTime *)
(* is still older than five minutes, on a filesystem that changes.         *)
(***************************************************************************)
OverlapInit == Start(PairFs, MaxOverlap, MaxEdits, MaxRefreshes, 0)

OverlapNext ==
  \/ Activate
  \/ Edit
  \/ \E t \in DOMAIN tasks : AnalysisRefresh(t)
  \/ Rebuild

OverlapSpec == OverlapInit /\ [][OverlapNext]_vars

\* the activation rebuild and the analysis rebuild ran together and both completed,
\* and no other rebuild of this indexer has
BothFinished ==
  /\ lastRefresh.done /\ ~lastRefresh.error /\ lastRefresh.overlap
  /\ lastRefresh.prior.done /\ ~lastRefresh.prior.error /\ lastRefresh.prior.overlap
  /\ ~lastRefresh.prior.follows
  /\ {lastRefresh.then, lastRefresh.prior.then} = {"activation", "analysis"}
  /\ \A t \in DOMAIN tasks : ~Live(t)

\* the changes of the filesystem while one of the two was in flight
EditsDuringBoth == Range(lastRefresh.edits) \cup Range(lastRefresh.prior.edits)

IndexedByBoth == lastRefresh.prior.indexed \o lastRefresh.indexed

Times(list, x) == Cardinality({i \in 1..Len(list) : list[i] = x})

\* the digest records a single rebuild of the filesystem the two ran over writes
SingleRebuildDigests ==
  {[path |-> PathJoin(WORKSPACE, f), hash |-> computeHash(<<lastRefresh.snap[f].text>>)] :
     f \in {g \in DOMAIN lastRefresh.snap : lastRefresh.snap[g].kind = "ok"}}

\* C27: when the activation rebuild and the analysis rebuild of one indexer
\* overlap, every file that nothing changed meanwhile is indexed exactly once by
\* the two together, and when nothing changed at all the digest table they leave
\* is the one a single rebuild writes.
C27_OverlapIndexesOnce ==
  BothFinished =>
    /\ \A f \in DOMAIN lastRefresh.snap :
         (/\ lastRefresh.snap[f].kind = "ok"
          /\ \A e \in EditsDuringBoth : e.kind # "root" /\ e.file # f)
           => Times(IndexedByBoth, PathJoin(WORKSPACE, f)) = 1
    /\ EditsDuringBoth = {} =>
         /\ Range(hashMap) = SingleRebuildDigests
         /\ Len(hashMap) = Cardinality(SingleRebuildDigests)

\* both completed over an unchanged filesystem and each of them indexed a file
C27_Witness ==
  /\ BothFinished
  /\ EditsDuringBoth = {}
  /\ Len(lastRefresh.indexed) = 1
  /\ Len(lastRefresh.prior.indexed) = 1

(***************************************************************************)
(* The ignore list of the live indexer, under SettingsSpec.                *)
(***************************************************************************)
\* C28: once a settings operation is complete (no handler is between persisting
\* a list and creating the indexer), the ignore list the live indexer was
\* constructed with is the persisted custom ignore list.
C28_LiveIgnoresArePersisted ==
  (indexerLive /\ initPending = 0) => customIgnores = custom_ignores

(***************************************************************************)
(* A rebuild that follows a completed rebuild with nothing changed, under  *)
(* Spec.                                                                   *)
(***************************************************************************)
\* the rebuild that settled last followed a completed rebuild of the same indexer
\* with no change of the filesystem in between or meanwhile, and glob listed the
\* files in the same order for both
RebuildOfUnchanged ==
  /\ StableRebuild
  /\ lastRefresh.base.valid /\ lastRefresh.base.edits = <<>>
  /\ lastRefresh.prior.done /\ ~lastRefresh.prior.error
  /\ lastRefresh.prior.files = lastRefresh.files

\* C29: a rebuild over a filesystem unchanged since the previous completed
\* rebuild of the same indexer, with the same enumeration, indexes no file,
\* leaves the digest, symbol and dependency tables exactly as they were and
\* stores the same root digest.
C29_UnchangedRebuildIsNoOp ==
  RebuildOfUnchanged =>
    /\ lastRefresh.indexed = <<>>
    /\ lastRefresh.after = lastRefresh.before
    /\ root.hash = lastRefresh.rootBefore.hash

\* such a rebuild has read the three files of an index that held them
C29_Witness ==
  /\ RebuildOfUnchanged
  /\ Len(lastRefresh.before.hashMap) = Len(SysFiles)
  /\ Cardinality(lastRefresh.read) = Len(SysFiles)
  /\ lastRefresh.rootBefore.type = "directory"

(***************************************************************************)
(* The digest table and the dependency table between the steps of the      *)
(* rebuilds, under Spec.                                                   *)
(***************************************************************************)
\* C30: in every state between two steps (where a query, or the processing of
\* another file, may run) the paths with a dependency entry are exactly the
\* paths with a digest record: processFile records the digest and indexContent
\* sets the dependency entry in the same step.
C30_DependencyKeysAreDigestKeys ==
  DOMAIN dependencyMap = Range(HashKeys(hashMap))

\* a rebuild is in the middle of a batch and has recorded some of the files,
\* one of them with no import
C30_Witness ==
  /\ \E t \in DOMAIN tasks :
       /\ tasks[t].pc = "batch"
       /\ \E k \in 1..Len(tasks[t].phase) : tasks[t].phase[k] # "done"
       /\ tasks[t].indexed # <<>>
  /\ Len(hashMap) \in 1..(Len(SysFiles) - 1)
  /\ \E p \in DOMAIN dependencyMap : dependencyMap[p] = <<>>

====
